---- MODULE Spec2Model ----
EXTENDS Integers, Sequences, FiniteSets, TLC

(***************************************************************************)
(* Model of the n8n Scroll community node: the polling trigger             *)
(* (ScrollTrigger.poll), the action node's item loop (Scroll.execute), the *)
(* resource modules' signer checks and the ScrollClient wrapper.           *)
(*                                                                         *)
(* The JSON-RPC provider is modelled as one consistent chain: a sequence   *)
(* of blocks that only grows, each block holding at most one log and at    *)
(* most one transaction.  A poll that awaits the provider more than once   *)
(* may see the chain grow between its awaits.                              *)
(***************************************************************************)

VARIABLES
    triggerType,   \* the node parameter 'triggerType'
    params,        \* the other node parameters of the trigger
    staticData,    \* this.getWorkflowStaticData('node')
    chain,         \* the provider's chain: chain[b] is block b, head = Len(chain)
    finalized,     \* number of the newest finalized block (0: none yet)
    nonce,         \* transaction count of the watched address
    emitted,       \* every item the trigger has returned so far, in order
    outcome,       \* how the poll that just ran ended: "null", "events", "error";
                   \* "idle" once the chain or the parameters have moved since
    firstReturn,   \* head at the end of the first poll (0: no poll yet)
    exec,          \* one run of Scroll.execute
    client         \* one ScrollClient and the calls made on it

vars == <<triggerType, params, staticData, chain, finalized, nonce, emitted,
          outcome, firstReturn, exec, client>>

triggerVars == <<triggerType, params, staticData, chain, finalized, nonce,
                 emitted, outcome, firstReturn>>

----------------------------------------------------------------------------
(* Bounds of the model *)

MaxHead == 4          \* blocks on the chain in the small trigger models
MaxEmitted == 4       \* items a trigger may emit before polls stop
MaxLargeHead == 8     \* blocks on the chain in the largeTransaction model
MaxBlocks == 5        \* blocks on the chain in the models without logs
MaxNonce == 3         \* transactions the watched address sends

----------------------------------------------------------------------------
(* JavaScript values *)

\* A key that is absent from the static data reads as undefined.
Undefined == -1

\* JavaScript truthiness of a number-or-undefined.
Truthy(x) == x # Undefined /\ x # 0

\* `x || d`
OrElse(x, d) == IF Truthy(x) THEN x ELSE d

EmptyStaticData ==
    [lastBlock |-> Undefined, lastFinalized |-> Undefined,
     lastNonce |-> Undefined, triggered |-> FALSE]

RECURSIVE SelectSeqIdx(_, _, _)
\* The indices i in lo..hi with P[i], in increasing order.
SelectSeqIdx(P, lo, hi) ==
    IF lo > hi THEN <<>>
    ELSE (IF P[lo] THEN <<lo>> ELSE <<>>) \o SelectSeqIdx(P, lo + 1, hi)

Min(a, b) == IF a <= b THEN a ELSE b

----------------------------------------------------------------------------
(* The chain: logs, transactions, blocks *)

ZeroAddress == "0x0"
UserA == "0xa"
UserB == "0xb"
TokenContract == "0xc0"
GatewayContract == "0xc1"

\* ethers.zeroPadValue(address, 32): the address as a 32-byte topic.
ZeroPadValue(a) ==
    CASE a = ZeroAddress -> "0x00..0"
      [] a = UserA -> "0x00..a"
      [] a = UserB -> "0x00..b"
      [] OTHER -> "0x00..?"

\* ethers.id(signature): the event topic of a signature.
EventId(sig) ==
    CASE sig = "Transfer(address,address,uint256)" -> "0xddf2"
      [] sig = "DepositETH(address,address,uint256,bytes)" -> "0x6670"
      [] sig = "WithdrawETH(address,address,uint256,bytes)" -> "0xd8ed"
      [] OTHER -> "0xe1e1"

TransferTopic == EventId("Transfer(address,address,uint256)")

\* Logs a block may hold.
Erc20Transfer ==
    [address |-> TokenContract,
     topics |-> <<TransferTopic, ZeroPadValue(UserA), ZeroPadValue(UserB)>>,
     data |-> "0x64"]
Erc20TransferBack ==
    [address |-> TokenContract,
     topics |-> <<TransferTopic, ZeroPadValue(UserB), ZeroPadValue(UserA)>>,
     data |-> "0x64"]
Erc721Mint ==
    [address |-> TokenContract,
     topics |-> <<TransferTopic, ZeroPadValue(ZeroAddress), ZeroPadValue(UserB), "0x07">>,
     data |-> "0x"]
DepositLog ==
    [address |-> GatewayContract,
     topics |-> <<EventId("DepositETH(address,address,uint256,bytes)"),
                  ZeroPadValue(UserA), ZeroPadValue(UserB)>>,
     data |-> "0x01"]
WithdrawLog ==
    [address |-> GatewayContract,
     topics |-> <<EventId("WithdrawETH(address,address,uint256,bytes)"),
                  ZeroPadValue(UserA), ZeroPadValue(UserB)>>,
     data |-> "0x01"]
CustomLog ==
    [address |-> TokenContract, topics |-> <<EventId("Ping()")>>, data |-> "0x"]

LogPool == {Erc20Transfer, Erc20TransferBack, Erc721Mint, DepositLog,
            WithdrawLog, CustomLog}

EmptyBlock == [logs |-> <<>>, txs |-> <<>>]

ChainHead == Len(chain)

LogBlocks(ch) == {b \in 1..Len(ch) : ch[b].logs # <<>>}
TxBlocks(ch) == {b \in 1..Len(ch) : ch[b].txs # <<>>}

----------------------------------------------------------------------------
(* Node parameters of the trigger *)

LogWindowKinds == {"tokenTransfer", "nftTransfer", "contractEvent",
                   "bridgeDeposit", "bridgeWithdrawal", "canvasBadgeMinted"}

DefaultParams ==
    [blockInterval |-> 1, transactionHash |-> "", confirmations |-> 1,
     tokenAddress |-> TokenContract, tokenFilterBy |-> "any",
     tokenFromAddress |-> UserA, tokenToAddress |-> UserA,
     nftAddress |-> TokenContract,
     contractAddress |-> TokenContract, eventSignature |-> "Ping()",
     watchAddress |-> UserA,
     minValue |-> 1, largeTransactionAddress |-> "",
     badgeContract |-> "", badgeRecipient |-> ""]

\* The parameter sets the log-window kinds are run with.
LogWindowConfigs ==
    {<<"tokenTransfer", [DefaultParams EXCEPT !.tokenFilterBy = f]>> :
        f \in {"any", "from", "to"}}
    \cup {<<k, DefaultParams>> :
        k \in {"nftTransfer", "contractEvent", "bridgeDeposit", "bridgeWithdrawal"}}
    \cup {<<"canvasBadgeMinted",
            [DefaultParams EXCEPT !.badgeContract = c, !.badgeRecipient = r]>> :
        c \in {"", TokenContract}, r \in {"", UserB}}

----------------------------------------------------------------------------
(* provider.getLogs *)

\* null in a topics filter: any topic at that position.
AnyTopic == "*"

\* The filter a log-window kind passes to provider.getLogs.  An address of ""
\* stands for a filter without address.
LogFilter(kind, p) ==
    CASE kind = "tokenTransfer" ->
           [address |-> p.tokenAddress,
            topics |-> <<TransferTopic>> \o
               (CASE p.tokenFilterBy = "from" -> <<ZeroPadValue(p.tokenFromAddress)>>
                  [] p.tokenFilterBy = "to" -> <<AnyTopic, ZeroPadValue(p.tokenToAddress)>>
                  [] OTHER -> <<>>)]
      [] kind = "nftTransfer" ->
           [address |-> p.nftAddress, topics |-> <<TransferTopic>>]
      [] kind = "contractEvent" ->
           [address |-> p.contractAddress, topics |-> <<EventId(p.eventSignature)>>]
      [] kind = "bridgeDeposit" ->
           [address |-> "",
            topics |-> <<EventId("DepositETH(address,address,uint256,bytes)")>>]
      [] kind = "bridgeWithdrawal" ->
           [address |-> "",
            topics |-> <<EventId("WithdrawETH(address,address,uint256,bytes)")>>]
      [] OTHER ->
           [address |-> p.badgeContract,
            topics |-> <<TransferTopic, ZeroPadValue(ZeroAddress)>> \o
               (IF p.badgeRecipient # "" THEN <<ZeroPadValue(p.badgeRecipient)>>
                ELSE <<>>)]

\* eth_getLogs matching: the address if given, and every given topic by position.
Matches(filter, log) ==
    /\ filter.address = "" \/ filter.address = log.address
    /\ Len(log.topics) >= Len(filter.topics)
    /\ \A i \in 1..Len(filter.topics) :
          filter.topics[i] = AnyTopic \/ filter.topics[i] = log.topics[i]

\* The blocks from..to of ch that hold a log matching the filter, in order.
GetLogs(ch, filter, from, to) ==
    SelectSeqIdx([b \in 1..Len(ch) |->
                    ch[b].logs # <<>> /\ Matches(filter, ch[b].logs[1])],
                 from, Min(to, Len(ch)))

\* Whether the loop body of the kind decodes the log without throwing:
\* topics[k].slice(26) needs topic k, BigInt(topics[3]) needs a fourth topic,
\* BigInt(log.data) needs a non-empty hex number.
Decodes(kind, log) ==
    CASE kind = "tokenTransfer" -> Len(log.topics) >= 3 /\ log.data # "0x"
      [] kind = "nftTransfer" -> Len(log.topics) >= 4
      [] kind = "canvasBadgeMinted" -> Len(log.topics) >= 4
      [] OTHER -> TRUE

LogEvent(kind, b) == [type |-> kind, blockNumber |-> b]

RECURSIVE MapEvents(_, _)
MapEvents(kind, blocks) ==
    IF blocks = <<>> THEN <<>>
    ELSE <<LogEvent(kind, blocks[1])>> \o MapEvents(kind, Tail(blocks))

----------------------------------------------------------------------------
(* The chain grows *)

\* A log occurs at most once on the chain.
UnusedLogs(ch) == LogPool \ {ch[b].logs[1] : b \in LogBlocks(ch)}

NextLogBlocks(ch) ==
    {EmptyBlock} \cup {[logs |-> <<l>>, txs |-> <<>>] : l \in UnusedLogs(ch)}

\* The chains a poll may see at its next await: the chain as it is, or grown
\* by one block.
GrownBy(ch, next, max) ==
    {ch} \cup (IF Len(ch) < max THEN {Append(ch, blk) : blk \in next} ELSE {})

MineLogBlock ==
    /\ Len(chain) < MaxHead
    /\ \E blk \in NextLogBlocks(chain) : chain' = Append(chain, blk)
    /\ outcome' = "idle"
    /\ UNCHANGED <<triggerType, params, staticData, finalized, nonce, emitted,
                   firstReturn, exec, client>>

----------------------------------------------------------------------------
(* ScrollTrigger.poll, log-window kinds *)

NoteFirstReturn(h) == IF firstReturn = 0 THEN h ELSE firstReturn

\* One poll of a log-window kind.  lastBlock falls back to a first
\* getBlockNumber() when nothing truthy is stored; currentBlock is read by a
\* second call, after which the chain may have grown.
PollLogWindow ==
    /\ triggerType \in LogWindowKinds
    /\ \E seen \in (IF Truthy(staticData.lastBlock) THEN {chain}
                    ELSE GrownBy(chain, NextLogBlocks(chain), MaxHead)) :
         LET lastBlock == OrElse(staticData.lastBlock, Len(chain))
             currentBlock == Len(seen)
             logs == GetLogs(seen, LogFilter(triggerType, params),
                             lastBlock + 1, currentBlock)
             throws == \E k \in 1..Len(logs) :
                          ~Decodes(triggerType, seen[logs[k]].logs[1])
             events == MapEvents(triggerType, logs)
         IN  /\ chain' = seen
             /\ firstReturn' = NoteFirstReturn(Len(seen))
             /\ IF currentBlock > lastBlock
                THEN IF throws
                     THEN /\ outcome' = "error"
                          /\ UNCHANGED <<staticData, emitted>>
                     ELSE /\ staticData' = [staticData EXCEPT !.lastBlock = currentBlock]
                          /\ emitted' = emitted \o events
                          /\ outcome' = IF events = <<>> THEN "null" ELSE "events"
                ELSE /\ outcome' = "null"
                     /\ UNCHANGED <<staticData, emitted>>
    /\ UNCHANGED <<triggerType, params, finalized, nonce, exec, client>>

IdleExec == [status |-> "unused"]
IdleClient == [status |-> "unused"]

InitLog ==
    /\ \E cfg \in LogWindowConfigs : triggerType = cfg[1] /\ params = cfg[2]
    /\ staticData = EmptyStaticData
    /\ chain = <<EmptyBlock>>
    /\ finalized = 0
    /\ nonce = 0
    /\ emitted = <<>>
    /\ outcome = "idle"
    /\ firstReturn = 0
    /\ exec = IdleExec
    /\ client = IdleClient

NextLog == MineLogBlock \/ PollLogWindow

SpecLog == InitLog /\ [][NextLog]_vars

----------------------------------------------------------------------------
(* Claims about the log-window kinds *)

EmittedBlocks == {emitted[k].blockNumber : k \in 1..Len(emitted)}

\* The first block the next querying poll can ask for: the block after the
\* stored cursor, or, with no truthy cursor stored, a block after the head the
\* next poll will read first.
NextWindowStart == OrElse(staticData.lastBlock, Len(chain)) + 1

MatchingLogBlocks ==
    {b \in LogBlocks(chain) :
        Matches(LogFilter(triggerType, params), chain[b].logs[1])}

\* C1: every log that matches the kind's filter and lies in a block mined
\* after the first poll returned is emitted by some later poll.  A log can
\* only be emitted by a later poll while its block is still at or after the
\* start of the next query window, so the claim requires that no such log is
\* ever both unemitted and behind that start.
C1_MatchingLogsAreEmitted ==
    \A b \in MatchingLogBlocks :
        (firstReturn > 0 /\ b > firstReturn) =>
            (b \in EmittedBlocks \/ b >= NextWindowStart)

----------------------------------------------------------------------------
(* ScrollTrigger.poll, largeTransaction *)

\* Blocks one poll scans at most: Math.min(currentBlock, lastBlock + 5).
LargeScanLimit == 5

\* String.prototype.toLowerCase on the addresses of the model.
ToLowerCase(a) ==
    CASE a = "0xA" -> "0xa"
      [] a = "0xB" -> "0xb"
      [] OTHER -> a

\* Transactions a block may hold; the provider reports checksummed (mixed-case)
\* addresses, to = "" is a contract creation (tx.to is null), valueEth is
\* parseFloat(ethers.formatEther(tx.value)).
TxPool ==
    {[hash |-> "0xt1", from |-> "0xA", to |-> "0xB", valueEth |-> 2],
     [hash |-> "0xt2", from |-> "0xB", to |-> "0xA", valueEth |-> 1],
     [hash |-> "0xt3", from |-> "0xB", to |-> "", valueEth |-> 2],
     [hash |-> "0xt4", from |-> "0xA", to |-> "0xB", valueEth |-> 0]}

UnusedTxs(ch) == TxPool \ {ch[b].txs[1] : b \in TxBlocks(ch)}

NextTxBlocks(ch) ==
    {EmptyBlock} \cup {[logs |-> <<>>, txs |-> <<t>>] : t \in UnusedTxs(ch)}

\* The filter of the largeTransaction case on one transaction.
IsLargeTransaction(tx, p) ==
    /\ tx.valueEth >= p.minValue
    /\ \/ p.largeTransactionAddress = ""
       \/ ToLowerCase(tx.from) = ToLowerCase(p.largeTransactionAddress)
       \/ (tx.to # "" /\ ToLowerCase(tx.to) = ToLowerCase(p.largeTransactionAddress))

\* The blocks the loop visits: lastBlock + 1 .. min(currentBlock, lastBlock + 5).
ScannedTo(lastBlock, currentBlock) == Min(currentBlock, lastBlock + LargeScanLimit)

LargeBlocks(ch, p, from, to) ==
    SelectSeqIdx([b \in 1..Len(ch) |->
                    ch[b].txs # <<>> /\ IsLargeTransaction(ch[b].txs[1], p)],
                 from, Min(to, Len(ch)))

MineTxBlock ==
    /\ Len(chain) < MaxLargeHead
    /\ \E blk \in NextTxBlocks(chain) : chain' = Append(chain, blk)
    /\ outcome' = "idle"
    /\ UNCHANGED <<triggerType, params, staticData, finalized, nonce, emitted,
                   firstReturn, exec, client>>

PollLargeTransaction ==
    /\ triggerType = "largeTransaction"
    /\ \E seen \in (IF Truthy(staticData.lastBlock) THEN {chain}
                    ELSE GrownBy(chain, NextTxBlocks(chain), MaxLargeHead)) :
         LET lastBlock == OrElse(staticData.lastBlock, Len(chain))
             currentBlock == Len(seen)
             events == MapEvents(triggerType,
                          LargeBlocks(seen, params, lastBlock + 1,
                                      ScannedTo(lastBlock, currentBlock)))
         IN  /\ chain' = seen
             /\ firstReturn' = NoteFirstReturn(Len(seen))
             /\ IF currentBlock > lastBlock
                THEN /\ staticData' = [staticData EXCEPT !.lastBlock = currentBlock]
                     /\ emitted' = emitted \o events
                     /\ outcome' = IF events = <<>> THEN "null" ELSE "events"
                ELSE /\ outcome' = "null"
                     /\ UNCHANGED <<staticData, emitted>>
    /\ UNCHANGED <<triggerType, params, finalized, nonce, exec, client>>

InitLarge ==
    /\ triggerType = "largeTransaction"
    /\ \E w \in {"", "0xa"} :
          params = [DefaultParams EXCEPT !.largeTransactionAddress = w]
    /\ staticData = EmptyStaticData
    /\ chain = <<EmptyBlock>>
    /\ finalized = 0
    /\ nonce = 0
    /\ emitted = <<>>
    /\ outcome = "idle"
    /\ firstReturn = 0
    /\ exec = IdleExec
    /\ client = IdleClient

NextLarge == MineTxBlock \/ PollLargeTransaction

SpecLarge == InitLarge /\ [][NextLarge]_vars

\* How often block b has been emitted.
TimesEmitted(seq, b) == Cardinality({k \in 1..Len(seq) : seq[k].blockNumber = b})

\* C2: every transaction that passes the filter and lies in a block after the
\* persisted cursor is emitted by exactly one poll, however many blocks were
\* mined since the previous poll.  The poll that moves the cursor from c to c'
\* is the only one that can emit the blocks c+1..c', so it must emit each
\* large transaction in them, and nothing may be emitted twice.
C2_LargeTransactionsEmittedOnce ==
    [][(triggerType = "largeTransaction" /\ Truthy(staticData.lastBlock))
        => \A b \in 1..Len(chain') :
              (/\ b > staticData.lastBlock
               /\ b <= staticData'.lastBlock
               /\ chain'[b].txs # <<>>
               /\ IsLargeTransaction(chain'[b].txs[1], params))
              => TimesEmitted(emitted', b) = 1]_vars

----------------------------------------------------------------------------
(* ScrollTrigger.poll, addressActivity *)

\* The watched address sends a transaction.
SendFromWatched ==
    /\ nonce < MaxNonce
    /\ nonce' = nonce + 1
    /\ outcome' = "idle"
    /\ UNCHANGED <<triggerType, params, staticData, chain, finalized, emitted,
                   firstReturn, exec, client>>

\* The condition under which the addressActivity case emits.
NonceChanged(currentNonce, lastNonce) == currentNonce > lastNonce \/ lastNonce = 0

PollAddressActivity ==
    /\ triggerType = "addressActivity"
    /\ Len(emitted) < MaxEmitted
    /\ LET lastNonce == OrElse(staticData.lastNonce, 0)
           currentNonce == nonce
       IN  IF NonceChanged(currentNonce, lastNonce)
           THEN /\ emitted' = Append(emitted,
                       [type |-> triggerType, address |-> params.watchAddress,
                        nonce |-> currentNonce, previousNonce |-> lastNonce])
                /\ staticData' = [staticData EXCEPT !.lastNonce = currentNonce]
                /\ outcome' = "events"
           ELSE /\ outcome' = "null"
                /\ UNCHANGED <<staticData, emitted>>
    /\ firstReturn' = NoteFirstReturn(Len(chain))
    /\ UNCHANGED <<triggerType, params, chain, finalized, nonce, exec, client>>

InitAddress ==
    /\ triggerType = "addressActivity"
    /\ \E w \in {UserA, UserB} : params = [DefaultParams EXCEPT !.watchAddress = w]
    /\ staticData = EmptyStaticData
    /\ chain = <<EmptyBlock>>
    /\ finalized = 0
    /\ nonce \in 0..1
    /\ emitted = <<>>
    /\ outcome = "idle"
    /\ firstReturn = 0
    /\ exec = IdleExec
    /\ client = IdleClient

NextAddress == SendFromWatched \/ PollAddressActivity

SpecAddress == InitAddress /\ [][NextAddress]_vars

\* C3: a poll emits an item only when the watched address's transaction count
\* differs from the count the previous poll persisted; a poll that observes
\* the persisted count again (nonce 0 included) emits nothing.
C3_EmitsOnlyOnNonceChange ==
    [][emitted' # emitted => nonce # staticData.lastNonce]_vars

----------------------------------------------------------------------------
(* ScrollTrigger.poll, newBlock *)

MineEmptyBlock ==
    /\ Len(chain) < MaxBlocks
    /\ chain' = Append(chain, EmptyBlock)
    /\ outcome' = "idle"
    /\ UNCHANGED <<triggerType, params, staticData, finalized, nonce, emitted,
                   firstReturn, exec, client>>

\* The condition under which the newBlock case emits.
IntervalReachedLoose(currentBlock, lastBlock, blockInterval) ==
    currentBlock > lastBlock

IntervalReached(currentBlock, lastBlock, blockInterval) ==
    currentBlock >= lastBlock + blockInterval

\* A first-poll test that never holds (the poll then treats the missing
\* cursor as block 0).
NoCursorNever(lastBlock) == FALSE

\* `if (lastBlock === 0)`
NoCursor(lastBlock) == lastBlock = 0

\* One poll of the newBlock kind; found is whether getBlock(currentBlock)
\* answers a block (`if (block)`).
PollNewBlock ==
    /\ triggerType = "newBlock"
    /\ \E found \in BOOLEAN :
       LET lastBlock == OrElse(staticData.lastBlock, 0)
           currentBlock == Len(chain)
       IN  IF NoCursor(lastBlock)
           THEN /\ staticData' = [staticData EXCEPT !.lastBlock = currentBlock]
                /\ outcome' = "null"
                /\ UNCHANGED emitted
           ELSE IF IntervalReached(currentBlock, lastBlock, params.blockInterval)
                THEN /\ emitted' = IF found
                                   THEN Append(emitted,
                                               LogEvent(triggerType, currentBlock))
                                   ELSE emitted
                     /\ staticData' = [staticData EXCEPT !.lastBlock = currentBlock]
                     /\ outcome' = IF found THEN "events" ELSE "null"
                ELSE /\ outcome' = "null"
                     /\ UNCHANGED <<staticData, emitted>>
    /\ firstReturn' = NoteFirstReturn(Len(chain))
    /\ UNCHANGED <<triggerType, params, chain, finalized, nonce, exec, client>>

InitNewBlock ==
    /\ triggerType = "newBlock"
    /\ \E n \in 1..2 : params = [DefaultParams EXCEPT !.blockInterval = n]
    /\ staticData = EmptyStaticData
    /\ chain = <<EmptyBlock>>
    /\ finalized = 0
    /\ nonce = 0
    /\ emitted = <<>>
    /\ outcome = "idle"
    /\ firstReturn = 0
    /\ exec = IdleExec
    /\ client = IdleClient

NextNewBlock == MineEmptyBlock \/ PollNewBlock

SpecNewBlock == InitNewBlock /\ [][NextNewBlock]_vars

\* The head advance since the cursor was first stored, in whole intervals.
\* With newBlock the first poll stores the head it reads, which is firstReturn.
IntervalsSinceFirstPoll == (Len(chain) - firstReturn) \div params.blockInterval

----------------------------------------------------------------------------
(* ScrollTrigger.poll, transactionConfirmed *)

\* The transactions the trigger may be pointed at.
WatchedHashes == {"0xt1", "0xt2"}

NextWatchedBlocks(ch) ==
    {EmptyBlock} \cup
    {[logs |-> <<>>, txs |-> <<t>>] : t \in {u \in UnusedTxs(ch) : u.hash \in WatchedHashes}}

\* provider.getTransactionReceipt(hash): the number of the block that holds the
\* transaction, 0 for null (not mined).
ReceiptBlock(ch, hash) ==
    IF \E b \in TxBlocks(ch) : ch[b].txs[1].hash = hash
    THEN CHOOSE b \in TxBlocks(ch) : ch[b].txs[1].hash = hash
    ELSE 0

MineWatchedBlock ==
    /\ Len(chain) < MaxBlocks
    /\ \E blk \in NextWatchedBlocks(chain) : chain' = Append(chain, blk)
    /\ outcome' = "idle"
    /\ UNCHANGED <<triggerType, params, staticData, finalized, nonce, emitted,
                   firstReturn, exec, client>>

\* The workflow is edited: the transactionHash parameter is set to another
\* transaction.  The node's static data is kept.
SetTransactionHash ==
    /\ triggerType = "transactionConfirmed"
    /\ \E h \in WatchedHashes \ {params.transactionHash} :
          params' = [params EXCEPT !.transactionHash = h]
    /\ outcome' = "idle"
    /\ UNCHANGED <<triggerType, staticData, chain, finalized, nonce, emitted,
                   firstReturn, exec, client>>

PollTransactionConfirmed ==
    /\ triggerType = "transactionConfirmed"
    /\ LET txHash == params.transactionHash
           receipt == ReceiptBlock(chain, txHash)
       IN  \E seen \in (IF ~staticData.triggered /\ txHash # "" /\ receipt # 0
                        THEN GrownBy(chain, NextWatchedBlocks(chain), MaxBlocks)
                        ELSE {chain}) :
             LET currentBlock == Len(seen)
                 confirmations == currentBlock - receipt
             IN  /\ chain' = seen
                 /\ firstReturn' = NoteFirstReturn(Len(seen))
                 /\ IF /\ ~staticData.triggered
                       /\ txHash # ""
                       /\ receipt # 0
                       /\ confirmations >= params.confirmations
                    THEN /\ emitted' = Append(emitted,
                                [type |-> triggerType, transactionHash |-> txHash,
                                 blockNumber |-> receipt,
                                 confirmations |-> confirmations])
                         /\ staticData' = [staticData EXCEPT !.triggered = TRUE]
                         /\ outcome' = "events"
                    ELSE /\ outcome' = "null"
                         /\ UNCHANGED <<staticData, emitted>>
    /\ UNCHANGED <<triggerType, params, finalized, nonce, exec, client>>

InitTransactionConfirmed ==
    /\ triggerType = "transactionConfirmed"
    /\ \E h \in {""} \cup WatchedHashes, c \in 0..2 :
          params = [DefaultParams EXCEPT !.transactionHash = h, !.confirmations = c]
    /\ staticData = EmptyStaticData
    /\ chain = <<EmptyBlock>>
    /\ finalized = 0
    /\ nonce = 0
    /\ emitted = <<>>
    /\ outcome = "idle"
    /\ firstReturn = 0
    /\ exec = IdleExec
    /\ client = IdleClient

NextTransactionConfirmed ==
    MineWatchedBlock \/ SetTransactionHash \/ PollTransactionConfirmed

SpecTransactionConfirmed ==
    InitTransactionConfirmed /\ [][NextTransactionConfirmed]_vars

EmittedHashes == {emitted[k].transactionHash : k \in 1..Len(emitted)}

\* C5: an item is emitted only for a transaction with a receipt whose
\* confirmations (head - receipt block) reach the configured number; no
\* transaction is emitted twice; and when a poll has just run while the
\* configured transaction had the required confirmations, that transaction
\* has been emitted, also when the parameter was changed to it after the
\* trigger had fired for another transaction.
C5_ConfirmedTransactionEmitted ==
    triggerType = "transactionConfirmed" =>
        /\ \A k \in 1..Len(emitted) :
              /\ emitted[k].blockNumber # 0
              /\ emitted[k].blockNumber = ReceiptBlock(chain, emitted[k].transactionHash)
              /\ emitted[k].confirmations >= params.confirmations
        /\ \A j, k \in 1..Len(emitted) :
              emitted[j].transactionHash = emitted[k].transactionHash => j = k
        /\ (/\ outcome # "idle"
            /\ params.transactionHash # ""
            /\ ReceiptBlock(chain, params.transactionHash) # 0
            /\ Len(chain) - ReceiptBlock(chain, params.transactionHash)
                  >= params.confirmations)
           => params.transactionHash \in EmittedHashes

----------------------------------------------------------------------------
(* ScrollTrigger.poll, blockFinalized *)

\* The provider's answer to getBlock('finalized') changes: a newer block is
\* finalized, or the request reaches a node that is behind.  0 stands for the
\* answer null.
FinalizedMoves ==
    /\ \E f \in 0..Len(chain) : f # finalized /\ finalized' = f
    /\ outcome' = "idle"
    /\ UNCHANGED <<triggerType, params, staticData, chain, nonce, emitted,
                   firstReturn, exec, client>>

\* The condition under which the blockFinalized case emits, finalizedBlock
\* being non-null.
FinalizedAdvancedLoose(number, lastFinalized) == number >= lastFinalized

FinalizedAdvanced(number, lastFinalized) == number > lastFinalized

PollBlockFinalized ==
    /\ triggerType = "blockFinalized"
    /\ LET lastFinalized == OrElse(staticData.lastFinalized, 0)
       IN  IF finalized # 0 /\ FinalizedAdvanced(finalized, lastFinalized)
           THEN /\ emitted' = Append(emitted, LogEvent(triggerType, finalized))
                /\ staticData' = [staticData EXCEPT !.lastFinalized = finalized]
                /\ outcome' = "events"
           ELSE /\ outcome' = "null"
                /\ UNCHANGED <<staticData, emitted>>
    /\ firstReturn' = NoteFirstReturn(Len(chain))
    /\ UNCHANGED <<triggerType, params, chain, finalized, nonce, exec, client>>

InitBlockFinalized ==
    /\ triggerType = "blockFinalized"
    /\ params = DefaultParams
    /\ staticData = EmptyStaticData
    /\ chain = <<EmptyBlock>>
    /\ finalized = 0
    /\ nonce = 0
    /\ emitted = <<>>
    /\ outcome = "idle"
    /\ firstReturn = 0
    /\ exec = IdleExec
    /\ client = IdleClient

NextBlockFinalized == MineEmptyBlock \/ FinalizedMoves \/ PollBlockFinalized

SpecBlockFinalized == InitBlockFinalized /\ [][NextBlockFinalized]_vars

StrictlyIncreasing(seq) ==
    \A j, k \in 1..Len(seq) : j < k => seq[j].blockNumber < seq[k].blockNumber

\* C6: the block numbers emitted are strictly increasing; a poll emits at most
\* one item; a poll emits exactly when the provider's finalized block number is
\* greater than the persisted lastFinalized; and after an emitting poll
\* lastFinalized is the emitted block number.
C6_FinalizedEmittedOnceInOrder ==
    [][(triggerType = "blockFinalized" /\ outcome' # "idle") =>
         /\ StrictlyIncreasing(emitted')
         /\ Len(emitted') <= Len(emitted) + 1
         /\ (emitted' # emitted) <=>
               (finalized # 0 /\ finalized > OrElse(staticData.lastFinalized, 0))
         /\ (emitted' # emitted) =>
               /\ emitted' = Append(emitted, emitted'[Len(emitted')])
               /\ emitted'[Len(emitted')].blockNumber = finalized
               /\ staticData'.lastFinalized = finalized]_vars

\* Two finalized blocks have been emitted, the second by the poll that just ran.
C6_Witness ==
    /\ triggerType = "blockFinalized"
    /\ outcome = "events"
    /\ Len(emitted) >= 2
    /\ staticData.lastFinalized = finalized

----------------------------------------------------------------------------
(* Scroll.execute: the action node's item loop and the resource modules.   *)
(* Every module builds its client from the credential, reads the signer    *)
(* (undefined when the credential has no private key), runs the guards of  *)
(* the selected operation in the order of the code and, when none throws,  *)
(* returns one item whose pairedItem is the input index.                   *)

MaxItems == 3         \* input items of one run of Scroll.execute

\* What an input item's parameters make the operation meet.
ItemKinds == {"ok", "withValue", "badAddress", "badJson", "providerError"}

Guard(check, message) == [check |-> check, message |-> message]

PrivateKeyRequired == Guard("signer", "Private key required")
ReadProvider == Guard("read", "provider request failed")
SendTransaction == Guard("send", "provider request failed")
ParseJson == Guard("json", "Unexpected token in JSON")

Op(resource, operation, kind, guards) ==
    [resource |-> resource, operation |-> operation, kind |-> kind,
     guards |-> guards]

TransactionOperations ==
    { Op("transaction", "sendETH", "write",
         <<Guard("address", "Invalid destination address"),
           PrivateKeyRequired, SendTransaction>>),
      Op("transaction", "sendTransaction", "write",
         <<Guard("address", "Invalid destination address"),
           PrivateKeyRequired, SendTransaction>>),
      Op("transaction", "signTransaction", "write",
         <<Guard("address", "Invalid destination address"),
           PrivateKeyRequired, ReadProvider,
           Guard("sign", "provider request failed")>>),
      Op("transaction", "cancelTransaction", "write",
         <<PrivateKeyRequired, Guard("read", "Transaction not found"),
           SendTransaction>>),
      Op("transaction", "speedUpTransaction", "write",
         <<PrivateKeyRequired, Guard("read", "Transaction not found"),
           SendTransaction>>),
      Op("transaction", "estimateGas", "read",
         <<Guard("address", "Invalid destination address"), ReadProvider>>),
      Op("transaction", "getGasPrice", "read", <<ReadProvider>>),
      Op("transaction", "noSuchOperation", "unknown",
         <<Guard("always", "Unknown operation")>>) }

TokenOperations ==
    { Op("token", "transferToken", "write",
         <<Guard("address", "Invalid token address"),
           Guard("address", "Invalid destination address"),
           PrivateKeyRequired, SendTransaction>>),
      Op("token", "approveToken", "write",
         <<Guard("address", "Invalid token address"),
           Guard("address", "Invalid spender address"),
           PrivateKeyRequired, SendTransaction>>),
      Op("token", "transferFrom", "write",
         <<Guard("address", "Invalid token address"),
           Guard("address", "Invalid address"),
           PrivateKeyRequired, SendTransaction>>),
      Op("token", "getTotalSupply", "read",
         <<Guard("address", "Invalid token address"), ReadProvider>>) }

NftOperations ==
    { Op("nft", "transferNFT", "write",
         <<Guard("address", "Invalid contract address"),
           Guard("address", "Invalid destination address"),
           PrivateKeyRequired, SendTransaction>>),
      Op("nft", "approveNFT", "write",
         <<Guard("address", "Invalid contract address"),
           Guard("address", "Invalid address"),
           PrivateKeyRequired, SendTransaction>>) }

ContractOperations ==
    { Op("contract", "callContract", "read",
         <<ParseJson, Guard("address", "Invalid contract address"),
           ReadProvider>>),
      Op("contract", "executeContract", "write",
         <<ParseJson, Guard("address", "Invalid contract address"),
           PrivateKeyRequired, SendTransaction>>),
      Op("contract", "deployContract", "write",
         <<ParseJson, PrivateKeyRequired, SendTransaction>>) }

\* executeMulticall sends only with a signer and without a call that carries
\* a value; otherwise it makes a static call.
MulticallOperations ==
    { Op("multicall", "batchWriteCalls", "write",
         <<ParseJson,
           Guard("signer", "Private key required for write operations"),
           SendTransaction>>),
      Op("multicall", "executeMulticall", "read",
         <<ParseJson, Guard("sendOrRead", "provider request failed")>>) }

BridgeOperations ==
    { Op("bridge", "withdrawETH", "write",
         <<PrivateKeyRequired, SendTransaction>>),
      Op("bridge", "estimateBridgeTime", "read", <<>>),
      Op("bridge", "getDepositStatus", "read", <<ReadProvider>>) }

SessionKeyOperations ==
    { Op("sessionKeys", "createSessionKey", "local", <<PrivateKeyRequired>>) }

\* A resource that is none of the switch's cases.
UnknownResource ==
    { Op("noSuchResource", "any", "unknown",
         <<Guard("always", "Unknown resource")>>) }

Operations ==
    TransactionOperations \cup TokenOperations \cup NftOperations \cup
    ContractOperations \cup MulticallOperations \cup BridgeOperations \cup
    SessionKeyOperations \cup UnknownResource

\* The messages of the modules' signer checks.
PrivateKeyRequiredMessages ==
    {"Private key required", "Private key required for write operations"}

\* The guards with a signer check that lets an undefined signer through
\* (the slip the claim about missing private keys excludes).
GuardThrowsSignerUnchecked(g, item, hasKey) ==
    CASE g.check = "address" -> item = "badAddress"
      [] g.check = "json" -> item = "badJson"
      [] g.check = "signer" -> FALSE
      [] g.check = "always" -> TRUE
      [] OTHER -> item = "providerError"

\* Does the guard throw for this item?
GuardThrows(g, item, hasKey) ==
    CASE g.check = "address" -> item = "badAddress"
      [] g.check = "json" -> item = "badJson"
      [] g.check = "signer" -> ~hasKey
      [] g.check = "always" -> TRUE
      [] OTHER -> item = "providerError"

\* Does the step hand a transaction to the signer (to sign or to submit)?
GuardSigns(g, item, hasKey) ==
    \/ g.check \in {"send", "sign"}
    \/ g.check = "sendOrRead" /\ hasKey /\ item # "withValue"

\* One module's execute for one item: the guards in order; the first that
\* throws ends the operation with its message.
RECURSIVE RunGuards(_, _, _, _)
RunGuards(guards, item, hasKey, signed) ==
    IF guards = <<>>
    THEN [threw |-> FALSE, message |-> "", signed |-> signed]
    ELSE LET g == Head(guards)
             nowSigned == signed \/ GuardSigns(g, item, hasKey)
         IN IF GuardThrows(g, item, hasKey)
            THEN [threw |-> TRUE, message |-> g.message, signed |-> nowSigned]
            ELSE RunGuards(Tail(guards), item, hasKey, nowSigned)

RunOperation(op, item, hasKey) == RunGuards(op.guards, item, hasKey, FALSE)

\* `return [{ json: result, pairedItem: { item: index } }]`
ResultItem(op, index) ==
    [json |-> [error |-> "", result |-> op.operation],
     pairedItem |-> [item |-> index]]

\* `{ json: { error: message }, pairedItem: { item: i } }`
ErrorItem(message, index) ==
    [json |-> [error |-> message, result |-> ""],
     pairedItem |-> [item |-> index]]

IsErrorItem(it) == it.json.error # ""

\* this.continueOnFail() as the catch clause reads it (the variants that
\* ignore the setting are what the claims about the catch clause exclude)
ContinueOnFailIgnored(ex) == FALSE
ContinueOnFailForced(ex) == TRUE
ContinueOnFail(ex) == ex.continueOnFail

\* The loop body for item i: dispatch, then push the result or catch.
ExecuteItem ==
    /\ exec.status = "running"
    /\ exec.i < Len(exec.items)
    /\ LET run == RunOperation(exec.op, exec.items[exec.i + 1], exec.hasKey)
           begun == [exec EXCEPT
                       !.started = @ \cup {exec.i},
                       !.signed = IF run.signed THEN @ \cup {exec.i} ELSE @]
       IN exec' =
            IF ~run.threw
            THEN [begun EXCEPT
                    !.returnData = Append(@, ResultItem(exec.op, exec.i)),
                    !.i = @ + 1]
            ELSE IF ContinueOnFail(exec)
            THEN [begun EXCEPT
                    !.returnData = Append(@, ErrorItem(run.message, exec.i)),
                    !.i = @ + 1]
            ELSE [begun EXCEPT !.status = "thrown", !.error = run.message]
    /\ UNCHANGED <<triggerVars, client>>

\* `return [returnData]` once the loop is over.
ExecuteReturn ==
    /\ exec.status = "running"
    /\ exec.i = Len(exec.items)
    /\ exec' = [exec EXCEPT !.status = "returned", !.output = exec.returnData]
    /\ UNCHANGED <<triggerVars, client>>

ItemSeqs == UNION { [1..n -> ItemKinds] : n \in 0..MaxItems }

InitExecute ==
    /\ triggerType = "none"
    /\ params = DefaultParams
    /\ staticData = EmptyStaticData
    /\ chain = <<>>
    /\ finalized = 0
    /\ nonce = 0
    /\ emitted = <<>>
    /\ outcome = "idle"
    /\ firstReturn = 0
    /\ client = IdleClient
    /\ \E op \in Operations, hasKey \in BOOLEAN, cof \in BOOLEAN,
         items \in ItemSeqs :
         exec = [status |-> "running", op |-> op, hasKey |-> hasKey,
                 continueOnFail |-> cof, items |-> items, i |-> 0,
                 returnData |-> <<>>, started |-> {}, signed |-> {},
                 error |-> "", output |-> <<>>]

NextExecute == ExecuteItem \/ ExecuteReturn

SpecExecute == InitExecute /\ [][NextExecute]_vars

\* The 1-based positions of the items whose operation throws.
ThrowingItems ==
    { k \in 1..Len(exec.items) :
        RunOperation(exec.op, exec.items[k], exec.hasKey).threw }

FirstThrowing == CHOOSE k \in ThrowingItems : \A j \in ThrowingItems : k <= j

\* C7: with continueOnFail enabled execute never rethrows; the returned branch
\* holds one item per input item, in input order, paired with its input index;
\* an item whose operation throws contributes exactly the item
\* {error: message} paired with it; and every item is processed, also after a
\* failing one.
C7_ContinueOnFailCoversEveryItem ==
    (exec.status # "unused" /\ exec.continueOnFail) =>
        /\ exec.status # "thrown"
        /\ exec.status = "returned" =>
             /\ Len(exec.output) = Len(exec.items)
             /\ exec.started = 0..(Len(exec.items) - 1)
             /\ \A k \in 1..Len(exec.items) :
                  LET run == RunOperation(exec.op, exec.items[k], exec.hasKey)
                  IN /\ exec.output[k].pairedItem.item = k - 1
                     /\ exec.output[k] =
                          IF run.threw THEN ErrorItem(run.message, k - 1)
                          ELSE ResultItem(exec.op, k - 1)

\* A run that returned after a failing first item and a succeeding later one.
C7_Witness ==
    /\ exec.status = "returned"
    /\ exec.continueOnFail
    /\ Len(exec.items) = 3
    /\ IsErrorItem(exec.output[1])
    /\ ~IsErrorItem(exec.output[3])
    /\ exec.output[3].pairedItem.item = 2

\* C8: with continueOnFail disabled, a run in which some operation throws
\* rethrows the error of the first such item, returns no output, starts no
\* operation after that item, and keeps the transactions of the items before.
C8_FirstErrorStopsTheRun ==
    (exec.status \in {"returned", "thrown"} /\ ~exec.continueOnFail) =>
        IF ThrowingItems = {}
        THEN exec.status = "returned"
        ELSE /\ exec.status = "thrown"
             /\ exec.error =
                  RunOperation(exec.op, exec.items[FirstThrowing],
                               exec.hasKey).message
             /\ exec.output = <<>>
             /\ exec.started = 0..(FirstThrowing - 1)
             /\ exec.signed =
                  { k - 1 : k \in { j \in 1..FirstThrowing :
                      RunOperation(exec.op, exec.items[j],
                                   exec.hasKey).signed } }

\* The second of three items threw after the first sent its transaction.
C8_Witness ==
    /\ exec.status = "thrown"
    /\ ~exec.continueOnFail
    /\ Len(exec.items) = 3
    /\ exec.started = {0, 1}
    /\ exec.signed = {0}
    /\ exec.error # ""

ValidatedItem(item) == item \notin {"badAddress", "badJson"}

\* C9 as stated: without a private key nothing is signed or sent, every write
\* operation fails with a 'Private key required' error, and read operations
\* complete as they do with a key.
C9_WritesFailWithPrivateKeyRequired ==
    (exec.status # "unused" /\ ~exec.hasKey) =>
        /\ exec.signed = {}
        /\ exec.op.kind = "write" =>
             /\ \A k \in 1..Len(exec.returnData) :
                  exec.returnData[k].json.error \in PrivateKeyRequiredMessages
             /\ exec.status = "thrown" =>
                  exec.error \in PrivateKeyRequiredMessages
        /\ exec.op.kind = "read" =>
             \A k \in 1..Len(exec.returnData) :
                IsErrorItem(exec.returnData[k]) <=>
                   RunOperation(exec.op, exec.items[k], TRUE).threw

\* C9, amended: without a private key nothing is signed or sent; every write
\* operation fails, with a 'Private key required' error when its address and
\* JSON parameters are valid and possibly with the validation error otherwise;
\* read operations complete as they do with a key.
C9_NoKeyNoTransaction ==
    (exec.status # "unused" /\ ~exec.hasKey) =>
        /\ exec.signed = {}
        /\ exec.op.kind = "write" =>
             /\ \A k \in 1..Len(exec.returnData) :
                  /\ IsErrorItem(exec.returnData[k])
                  /\ ValidatedItem(exec.items[k]) =>
                       exec.returnData[k].json.error
                          \in PrivateKeyRequiredMessages
             /\ exec.status = "thrown" =>
                  (ValidatedItem(exec.items[exec.i + 1]) =>
                     exec.error \in PrivateKeyRequiredMessages)
             /\ exec.status = "returned" =>
                  Len(exec.returnData) = Len(exec.items)
        /\ exec.op.kind = "read" =>
             /\ \A k \in 1..Len(exec.returnData) :
                  IsErrorItem(exec.returnData[k]) <=>
                     RunOperation(exec.op, exec.items[k], TRUE).threw
             /\ exec.status = "thrown" =>
                  RunOperation(exec.op, exec.items[exec.i + 1], TRUE).threw

\* A write operation without a key met a valid item and an invalid address.
C9_Witness ==
    /\ exec.status = "returned"
    /\ ~exec.hasKey
    /\ exec.op.kind = "write"
    /\ Len(exec.returnData) = 2
    /\ exec.returnData[1].json.error = "Private key required"
    /\ exec.returnData[2].json.error = "Invalid destination address"
    /\ exec.signed = {}

----------------------------------------------------------------------------
(* ScrollClient: construction from ScrollClientOptions and the methods     *)
(* that need the signer.                                                   *)

MaxRequests == 2      \* provider requests, and signatures, of one client

\* SCROLL_NETWORKS, with the fields the constructor reads.
SCROLL_NETWORKS ==
    [mainnet |-> [name |-> "Scroll Mainnet", chainId |-> 534352,
                  rpcUrl |-> "https://rpc.scroll.io"],
     sepolia |-> [name |-> "Scroll Sepolia", chainId |-> 534351,
                  rpcUrl |-> "https://sepolia-rpc.scroll.io"]]

\* Keys every JavaScript object inherits: SCROLL_NETWORKS[key] is then a
\* truthy value that is no NetworkConfig (its chainId is undefined).
InheritedKeys == {"constructor"}
InheritedValue == [name |-> "Object", chainId |-> Undefined, rpcUrl |-> ""]

NoConfig == [name |-> "", chainId |-> Undefined, rpcUrl |-> ""]

Networks == {"mainnet", "sepolia", "custom", "goerli", "", "constructor"}
RpcUrls == {"", "http://localhost:8545"}
PrivateKeys == {"", "4c0883a6", "0x4c0883a6"}
ChainIds == {Undefined, 1337}

Thrown(message) == [threw |-> TRUE, message |-> message, config |-> NoConfig]
Returned(config) == [threw |-> FALSE, message |-> "", config |-> config]

\* An unknown name resolving to the main network (the slip the claim about
\* construction excludes).
GetNetworkConfigLenient(network) ==
    IF network \in DOMAIN SCROLL_NETWORKS THEN Returned(SCROLL_NETWORKS[network])
    ELSE Returned(SCROLL_NETWORKS["mainnet"])

\* getNetworkConfig: `const config = SCROLL_NETWORKS[network]; if (!config) throw`
GetNetworkConfig(network) ==
    IF network \in DOMAIN SCROLL_NETWORKS THEN Returned(SCROLL_NETWORKS[network])
    ELSE IF network \in InheritedKeys THEN Returned(InheritedValue)
    ELSE Thrown("Unknown network")

\* `key.startsWith('0x') ? key : `0x${key}``
StartsWith0x(key) == key = "0x4c0883a6"
WithPrefix(key) == IF StartsWith0x(key) THEN key ELSE "0x4c0883a6"

NoSigner == ""

FailedClient(options, message) ==
    [status |-> "failed", options |-> options, error |-> message,
     network |-> NoConfig, providerUrl |-> "", signer |-> NoSigner,
     requests |-> 0, signatures |-> 0,
     lastCall |-> [method |-> "", threw |-> FALSE, message |-> ""]]

\* The first branch of the constructor: the network configuration.
ResolveNetwork(options) ==
    IF options.network = "custom"
    THEN IF options.rpcUrl = ""
         THEN Thrown("RPC URL is required for custom network")
         ELSE Returned([name |-> "Custom Network",
                        chainId |-> OrElse(options.chainId, 534352),
                        rpcUrl |-> options.rpcUrl])
    ELSE GetNetworkConfig(options.network)

\* new ScrollClient(options).  The JSON-RPC provider's constructor rejects a
\* network whose chainId is not a number.
NewScrollClient(options) ==
    LET resolved == ResolveNetwork(options)
        network == resolved.config
    IN IF resolved.threw THEN FailedClient(options, resolved.message)
       ELSE IF network.chainId = Undefined
       THEN FailedClient(options, "invalid network object name or chainId")
       ELSE [status |-> "constructed", options |-> options, error |-> "",
             network |-> network,
             providerUrl |-> IF options.rpcUrl # "" THEN options.rpcUrl
                             ELSE network.rpcUrl,
             signer |-> IF options.privateKey # ""
                        THEN WithPrefix(options.privateKey) ELSE NoSigner,
             requests |-> 0, signatures |-> 0,
             lastCall |-> [method |-> "", threw |-> FALSE, message |-> ""]]

GetSigner(c) == c.signer
HasSigner(c) == c.signer # NoSigner

SignerMethods ==
    {"getSignerAddress", "sendETH", "sendTransaction", "signTransaction"}

\* The constructor runs.
Construct ==
    /\ client.status = "new"
    /\ client' = NewScrollClient(client.options)
    /\ UNCHANGED <<triggerVars, exec>>

\* getSignerAddress, sendETH, sendTransaction or signTransaction is called.
CallSignerMethod ==
    /\ client.status = "constructed"
    /\ client.requests < MaxRequests
    /\ client.signatures < MaxRequests
    /\ \E method \in SignerMethods :
         client' =
           IF ~HasSigner(client)
           THEN [client EXCEPT !.lastCall =
                   [method |-> method, threw |-> TRUE,
                    message |-> "No signer available"]]
           ELSE [client EXCEPT
                   !.lastCall = [method |-> method, threw |-> FALSE,
                                 message |-> ""],
                   !.requests = IF method \in {"sendETH", "sendTransaction"}
                                THEN @ + 1 ELSE @,
                   !.signatures = IF method = "getSignerAddress"
                                  THEN @ ELSE @ + 1]
    /\ UNCHANGED <<triggerVars, exec>>

\* A method that only asks the provider (getBlockNumber).
CallProviderMethod ==
    /\ client.status = "constructed"
    /\ client.requests < MaxRequests
    /\ client' = [client EXCEPT
                    !.lastCall = [method |-> "getBlockNumber",
                                  threw |-> FALSE, message |-> ""],
                    !.requests = @ + 1]
    /\ UNCHANGED <<triggerVars, exec>>

InitClient ==
    /\ triggerType = "none"
    /\ params = DefaultParams
    /\ staticData = EmptyStaticData
    /\ chain = <<>>
    /\ finalized = 0
    /\ nonce = 0
    /\ emitted = <<>>
    /\ outcome = "idle"
    /\ firstReturn = 0
    /\ exec = IdleExec
    /\ \E network \in Networks, rpcUrl \in RpcUrls, key \in PrivateKeys,
         chainId \in ChainIds :
         client = [status |-> "new",
                   options |-> [network |-> network, rpcUrl |-> rpcUrl,
                                privateKey |-> key, chainId |-> chainId]]

NextClient == Construct \/ CallSignerMethod \/ CallProviderMethod

SpecClient == InitClient /\ [][NextClient]_vars

\* C10: construction succeeds exactly for 'mainnet', 'sepolia' and 'custom'
\* with a non-empty rpcUrl and throws otherwise; a constructed client has a
\* signer exactly when a non-empty private key was supplied, and hasSigner()
\* agrees with getSigner(); on a client without a signer getSignerAddress,
\* sendETH, sendTransaction and signTransaction throw 'No signer available'
\* and issue no provider request.
C10_ConstructionAndSignerChecks ==
    [][client' # client =>
         /\ client.status = "new" =>
              /\ client'.status \in {"constructed", "failed"}
              /\ client'.status = "constructed" <=>
                   \/ client.options.network \in {"mainnet", "sepolia"}
                   \/ /\ client.options.network = "custom"
                      /\ client.options.rpcUrl # ""
              /\ client'.status = "failed" => client'.error # ""
         /\ client'.status = "constructed" =>
              /\ HasSigner(client') <=> client'.options.privateKey # ""
              /\ HasSigner(client') <=> GetSigner(client') # NoSigner
         /\ (/\ client.status = "constructed"
             /\ ~HasSigner(client)
             /\ client'.lastCall.method \in SignerMethods) =>
              /\ client'.lastCall.threw
              /\ client'.lastCall.message = "No signer available"
              /\ client'.requests = client.requests
              /\ client'.signatures = client.signatures]_vars

\* A client constructed without a private key refused to send ETH after it
\* had answered a provider request.
C10_Witness ==
    /\ client.status = "constructed"
    /\ client.options.network = "custom"
    /\ client.options.privateKey = ""
    /\ client.requests = 1
    /\ client.lastCall.method = "sendETH"
    /\ client.lastCall.threw

----------------------------------------------------------------------------
(* Scroll.execute against an RPC endpoint that rate-limits: while the      *)
(* endpoint is rejecting, a provider request of an operation throws.       *)

MaxRejects == 2       \* requests the endpoint rejects before it recovers

RateLimitMessage == "Too Many Requests"

\* Does the operation, run with valid parameters, get as far as a provider
\* request?  (It does when a failing provider is what makes it throw.)
IssuesRequest(op, hasKey) ==
    /\ ~RunOperation(op, "ok", hasKey).threw
    /\ RunOperation(op, "providerError", hasKey).threw

\* The operation for a valid item at the endpoint: its first provider request
\* throws while the endpoint is rejecting.
RunAtEndpoint(op, hasKey, rejecting) ==
    IF rejecting > 0 /\ IssuesRequest(op, hasKey)
    THEN [threw |-> TRUE, message |-> RateLimitMessage,
          signed |-> RunOperation(op, "providerError", hasKey).signed]
    ELSE RunOperation(op, "ok", hasKey)

\* The loop body for item i at the endpoint: the module's result is pushed,
\* or the catch clause handles what the provider threw.
ExecuteItemAtEndpoint ==
    /\ exec.status = "running"
    /\ exec.i < Len(exec.items)
    /\ LET run == RunAtEndpoint(exec.op, exec.hasKey, exec.rejecting)
           begun == [exec EXCEPT
                       !.started = @ \cup {exec.i},
                       !.signed = IF run.signed THEN @ \cup {exec.i} ELSE @,
                       !.requests = IF IssuesRequest(exec.op, exec.hasKey)
                                    THEN @ + 1 ELSE @,
                       !.rejecting = IF @ > 0 /\ IssuesRequest(exec.op, exec.hasKey)
                                     THEN @ - 1 ELSE @]
       IN exec' =
            IF ~run.threw
            THEN [begun EXCEPT
                    !.returnData = Append(@, ResultItem(exec.op, exec.i)),
                    !.i = @ + 1]
            ELSE IF ContinueOnFail(exec)
            THEN [begun EXCEPT
                    !.returnData = Append(@, ErrorItem(run.message, exec.i)),
                    !.i = @ + 1]
            ELSE [begun EXCEPT !.status = "thrown", !.error = run.message]
    /\ UNCHANGED <<triggerVars, client>>

\* The endpoint accepts requests again.
EndpointRecovers ==
    /\ exec.status = "running"
    /\ exec.rejecting > 0
    /\ exec' = [exec EXCEPT !.rejecting = 0]
    /\ UNCHANGED <<triggerVars, client>>

InitRateLimit ==
    /\ triggerType = "none"
    /\ params = DefaultParams
    /\ staticData = EmptyStaticData
    /\ chain = <<>>
    /\ finalized = 0
    /\ nonce = 0
    /\ emitted = <<>>
    /\ outcome = "idle"
    /\ firstReturn = 0
    /\ client = IdleClient
    /\ \E op \in Operations, hasKey \in BOOLEAN, cof \in BOOLEAN,
         n \in 1..MaxItems, rejecting \in 0..MaxRejects :
         exec = [status |-> "running", op |-> op, hasKey |-> hasKey,
                 continueOnFail |-> cof, items |-> [k \in 1..n |-> "ok"],
                 i |-> 0, returnData |-> <<>>, started |-> {}, signed |-> {},
                 error |-> "", output |-> <<>>,
                 requests |-> 0, rejecting |-> rejecting]

NextRateLimit == ExecuteItemAtEndpoint \/ EndpointRecovers \/ ExecuteReturn

SpecRateLimit == InitRateLimit /\ [][NextRateLimit]_vars

\* C11: a provider request that the endpoint rate-limits is retried, so no
\* item ends with the rate-limit error: neither as an error item nor as the
\* error that execute rethrows.
C11_RateLimitedRequestIsRetried ==
    exec.status # "unused" =>
        /\ exec.error # RateLimitMessage
        /\ \A k \in 1..Len(exec.returnData) :
             exec.returnData[k].json.error # RateLimitMessage

----------------------------------------------------------------------------
(* Address utilities (utils/addressUtils.ts).  A string is its optional    *)
(* "0x" prefix and the characters after it; an address has AddressDigits   *)
(* hexadecimal digits (40 in Ethereum).  The characters stand for a lower  *)
(* case hex letter, an upper case hex letter, a decimal digit and a letter *)
(* that is no hex digit.                                                   *)

AddressDigits == 2    \* hex digits of an address in the model

Chars == {"a", "A", "7", "g"}

Str(prefix, digits) == [prefix |-> prefix, digits |-> digits]

EmptyString == Str("", <<>>)

Strings ==
    { Str(prefix, digits) :
        prefix \in {"", "0x"},
        digits \in UNION { [1..n -> Chars] : n \in 0..(AddressDigits + 1) } }

IsHexDigit(c) == c \in {"a", "A", "7"}
LowerChar(c) == IF c = "A" THEN "a" ELSE c
UpperChar(c) == IF c = "a" THEN "A" ELSE c

\* String.prototype.toLowerCase
LowerCase(str) ==
    Str(str.prefix, [k \in 1..Len(str.digits) |-> LowerChar(str.digits[k])])

\* /^(0x)?[0-9a-fA-F]{40}$/
MatchesHexAddress(str) ==
    /\ Len(str.digits) = AddressDigits
    /\ \A k \in 1..Len(str.digits) : IsHexDigit(str.digits[k])

\* /([A-F].*[a-f])|([a-f].*[A-F])/
HasMixedCase(str) ==
    /\ \E k \in 1..Len(str.digits) : str.digits[k] = "a"
    /\ \E k \in 1..Len(str.digits) : str.digits[k] = "A"

\* The checksum form: "0x" and the digits with the case the hash of the
\* lower-case digits gives each letter (here: upper case at odd positions).
ChecksumForm(str) ==
    Str("0x", [k \in 1..Len(str.digits) |->
                  IF k % 2 = 1 THEN UpperChar(str.digits[k])
                  ELSE LowerChar(str.digits[k])])

\* ethers.getAddress: the checksum form, or a throw for what is no address
\* or is written in mixed case with a wrong checksum.
GetAddress(str) ==
    IF MatchesHexAddress(str)
         /\ (HasMixedCase(str) => ChecksumForm(str).digits = str.digits)
    THEN [threw |-> FALSE, message |-> "", value |-> ChecksumForm(str)]
    ELSE [threw |-> TRUE, message |-> "invalid address", value |-> EmptyString]

\* A validation that takes every string of hex digits, whatever its length
\* (the slip the claims about address validation exclude).
IsValidAddressAnyLength(str) ==
    \A k \in 1..Len(str.digits) : IsHexDigit(str.digits[k])

\* isValidAddress: `try { return ethers.isAddress(address) } catch { return false }`
IsValidAddress(str) == ~GetAddress(str).threw

\* toChecksumAddress
ToChecksumAddress(str) ==
    IF ~IsValidAddress(str)
    THEN [threw |-> TRUE, message |-> "Invalid address", value |-> EmptyString]
    ELSE GetAddress(str)

----------------------------------------------------------------------------
(* Operations that take an address parameter and build a provider query    *)
(* from it.                                                                *)

NoQuery == [issued |-> FALSE, method |-> "", hasAddress |-> FALSE,
            address |-> EmptyString]

Query(method, hasAddress, address) ==
    [issued |-> TRUE, method |-> method, hasAddress |-> hasAddress,
     address |-> address]

Threw(message) == [threw |-> TRUE, message |-> message, query |-> NoQuery]
Queried(query) == [threw |-> FALSE, message |-> "", query |-> query]

\* account.execute, case getBalance
GetBalance(address) ==
    IF ~IsValidAddress(address) THEN Threw("Invalid Ethereum address")
    ELSE Queried(Query("getBalance", TRUE, ToChecksumAddress(address).value))

\* event.execute, case getLogs:
\* `address: contractAddress && isValidAddress(contractAddress) ? contractAddress : undefined`
GetLogsOperation(address) ==
    IF address # EmptyString /\ IsValidAddress(address)
    THEN Queried(Query("getLogs", TRUE, address))
    ELSE Queried(Query("getLogs", FALSE, EmptyString))

\* event.execute, case getEventsByContract
GetEventsByContract(address) ==
    IF ~IsValidAddress(address) THEN Threw("Invalid contract address")
    ELSE Queried(Query("getLogs", TRUE, address))

\* gas.execute, case estimateGas:
\* `if (toAddress && isValidAddress(toAddress)) tx.to = toChecksumAddress(toAddress)`
GasEstimateGas(address) ==
    IF address # EmptyString /\ IsValidAddress(address)
    THEN Queried(Query("estimateGas", TRUE, ToChecksumAddress(address).value))
    ELSE Queried(Query("estimateGas", FALSE, EmptyString))

\* transaction.execute, case estimateGas
TransactionEstimateGas(address) ==
    IF ~IsValidAddress(address) THEN Threw("Invalid destination address")
    ELSE Queried(Query("estimateGas", TRUE, ToChecksumAddress(address).value))

AddressOperations ==
    {"account.getBalance", "event.getLogs", "event.getEventsByContract",
     "gas.estimateGas", "transaction.estimateGas"}

RunAddressOperation(operation, address) ==
    CASE operation = "account.getBalance" -> GetBalance(address)
      [] operation = "event.getLogs" -> GetLogsOperation(address)
      [] operation = "event.getEventsByContract" -> GetEventsByContract(address)
      [] operation = "gas.estimateGas" -> GasEstimateGas(address)
      [] OTHER -> TransactionEstimateGas(address)

\* The loop body for item i of an operation with an address parameter.
ExecuteAddressItem ==
    /\ exec.status = "running"
    /\ exec.i < Len(exec.items)
    /\ LET run == RunAddressOperation(exec.op, exec.items[exec.i + 1])
           begun == [exec EXCEPT !.queries = Append(@, run.query)]
       IN exec' =
            IF ~run.threw
            THEN [begun EXCEPT
                    !.returnData = Append(@, ResultItem([operation |-> exec.op],
                                                        exec.i)),
                    !.i = @ + 1]
            ELSE IF ContinueOnFail(exec)
            THEN [begun EXCEPT
                    !.returnData = Append(@, ErrorItem(run.message, exec.i)),
                    !.i = @ + 1]
            ELSE [begun EXCEPT !.status = "thrown", !.error = run.message]
    /\ UNCHANGED <<triggerVars, client>>

InitAddressParam ==
    /\ triggerType = "none"
    /\ params = DefaultParams
    /\ staticData = EmptyStaticData
    /\ chain = <<>>
    /\ finalized = 0
    /\ nonce = 0
    /\ emitted = <<>>
    /\ outcome = "idle"
    /\ firstReturn = 0
    /\ client = IdleClient
    /\ \E operation \in AddressOperations, cof \in BOOLEAN,
         first \in Strings, second \in {EmptyString, Str("0x", <<"g">>)} :
         exec = [status |-> "running", op |-> operation,
                 continueOnFail |-> cof, items |-> <<first, second>>,
                 i |-> 0, returnData |-> <<>>, queries |-> <<>>,
                 error |-> "", output |-> <<>>]

NextAddressParam == ExecuteAddressItem \/ ExecuteReturn

SpecAddressParam == InitAddressParam /\ [][NextAddressParam]_vars

\* C12: an item whose address parameter is non-empty and no valid address
\* fails with an error, and no provider query is issued for it.
C12_InvalidAddressIsAnError ==
    exec.status # "unused" =>
        \A k \in 1..Len(exec.queries) :
            (exec.items[k] # EmptyString /\ ~IsValidAddress(exec.items[k])) =>
                /\ ~exec.queries[k].issued
                /\ \/ exec.status = "thrown" /\ exec.i = k - 1
                   \/ k <= Len(exec.returnData) /\ IsErrorItem(exec.returnData[k])

----------------------------------------------------------------------------
(* Lookup of the network configuration and the contract addresses by       *)
(* network name (constants/networks.ts, constants/contracts.ts).           *)

MaxLookups == 2       \* lookups made in one behaviour

NoContracts == [l1 |-> "", l2 |-> ""]

\* MAINNET_CONTRACTS and SEPOLIA_CONTRACTS, by the first address of each layer.
MAINNET_CONTRACTS ==
    [l1 |-> "0xa13BAF47339d63B743e7Da8741db5456DAc1E556",
     l2 |-> "0x781e90f1c8Fc4611c9b7497C3B47F99Ef6969CbC"]
SEPOLIA_CONTRACTS ==
    [l1 |-> "0x2D567EcE699Eabe5afCd141eDB7A4f2D0D6ce8a0",
     l2 |-> "0xBa50f5340FB9F3Bd074bD638c9BE13eCB36E603d"]

\* getContracts: a switch on the network name.
GetContracts(network) ==
    CASE network = "mainnet" ->
           [threw |-> FALSE, message |-> "", contracts |-> MAINNET_CONTRACTS]
      [] network = "sepolia" ->
           [threw |-> FALSE, message |-> "", contracts |-> SEPOLIA_CONTRACTS]
      [] OTHER ->
           [threw |-> TRUE, message |-> "Unknown network",
            contracts |-> NoContracts]

\* getNetworkConfig(network) is called.
CallGetNetworkConfig ==
    /\ client.status = "lookup"
    /\ Len(client.calls) < MaxLookups
    /\ \E network \in Networks :
         LET r == GetNetworkConfig(network)
         IN client' = [client EXCEPT !.calls = Append(@,
                [fn |-> "getNetworkConfig", network |-> network,
                 threw |-> r.threw, message |-> r.message,
                 chainId |-> r.config.chainId, contracts |-> NoContracts])]
    /\ UNCHANGED <<triggerVars, exec>>

\* getContracts(network) is called.
CallGetContracts ==
    /\ client.status = "lookup"
    /\ Len(client.calls) < MaxLookups
    /\ \E network \in Networks :
         LET r == GetContracts(network)
         IN client' = [client EXCEPT !.calls = Append(@,
                [fn |-> "getContracts", network |-> network,
                 threw |-> r.threw, message |-> r.message,
                 chainId |-> Undefined, contracts |-> r.contracts])]
    /\ UNCHANGED <<triggerVars, exec>>

InitLookup ==
    /\ triggerType = "none"
    /\ params = DefaultParams
    /\ staticData = EmptyStaticData
    /\ chain = <<>>
    /\ finalized = 0
    /\ nonce = 0
    /\ emitted = <<>>
    /\ outcome = "idle"
    /\ firstReturn = 0
    /\ exec = IdleExec
    /\ client = [status |-> "lookup", calls |-> <<>>]

NextLookup == CallGetNetworkConfig \/ CallGetContracts

SpecLookup == InitLookup /\ [][NextLookup]_vars

\* C13: getNetworkConfig gives chainId 534352 for 'mainnet' and 534351 for
\* 'sepolia'; getContracts gives both l1 and l2 for these two names; for
\* every other name both functions throw 'Unknown network'.
C13_LookupKnowsTwoNetworks ==
    client.status = "lookup" =>
        \A k \in 1..Len(client.calls) :
            LET call == client.calls[k]
            IN /\ (call.fn = "getNetworkConfig" /\ call.network = "mainnet") =>
                    ~call.threw /\ call.chainId = 534352
               /\ (call.fn = "getNetworkConfig" /\ call.network = "sepolia") =>
                    ~call.threw /\ call.chainId = 534351
               /\ (call.fn = "getContracts"
                     /\ call.network \in {"mainnet", "sepolia"}) =>
                    /\ ~call.threw
                    /\ call.contracts.l1 # ""
                    /\ call.contracts.l2 # ""
               /\ call.network \notin {"mainnet", "sepolia"} =>
                    call.threw /\ call.message = "Unknown network"

----------------------------------------------------------------------------
(* isValidAddress and toChecksumAddress applied to a string.               *)

\* isValidAddress(input) is called.
CallIsValidAddress ==
    /\ client.status = "addressUtils"
    /\ client' = [client EXCEPT !.call =
          [fn |-> "isValidAddress", threw |-> FALSE, message |-> "",
           valid |-> IsValidAddress(client.input), value |-> EmptyString]]
    /\ UNCHANGED <<triggerVars, exec>>

\* toChecksumAddress(input) is called.
CallToChecksumAddress ==
    /\ client.status = "addressUtils"
    /\ LET r == ToChecksumAddress(client.input)
       IN client' = [client EXCEPT !.call =
             [fn |-> "toChecksumAddress", threw |-> r.threw,
              message |-> r.message, valid |-> FALSE, value |-> r.value]]
    /\ UNCHANGED <<triggerVars, exec>>

InitAddressUtils ==
    /\ triggerType = "none"
    /\ params = DefaultParams
    /\ staticData = EmptyStaticData
    /\ chain = <<>>
    /\ finalized = 0
    /\ nonce = 0
    /\ emitted = <<>>
    /\ outcome = "idle"
    /\ firstReturn = 0
    /\ exec = IdleExec
    /\ \E input \in Strings :
         client = [status |-> "addressUtils", input |-> input,
                   call |-> [fn |-> "", threw |-> FALSE, message |-> "",
                             valid |-> FALSE, value |-> EmptyString]]

NextAddressUtils == CallIsValidAddress \/ CallToChecksumAddress

SpecAddressUtils == InitAddressUtils /\ [][NextAddressUtils]_vars

\* The input is text with a character that is no hex digit, or hex of the
\* wrong length, or empty.
NoHexAddress(str) ==
    \/ str = EmptyString
    \/ \E k \in 1..Len(str.digits) : ~IsHexDigit(str.digits[k])
    \/ Len(str.digits) # AddressDigits

----------------------------------------------------------------------------
(* Gas fee composition: the gas resource's getTotalFeeEstimate and          *)
(* gasUtils' calculateTotalFee.  The provider's answers are the inputs; a  *)
(* fee-data field the provider leaves null reads as Undefined; amounts are *)
(* bigints, so the arithmetic does not overflow.                           *)

MaxGas == 5           \* largest gas estimate of the provider
MaxPrice == 2         \* largest price per gas of the provider
MaxL1Fee == 2         \* largest fee the L1 gas-price oracle answers

\* `x || 0n`, `x ? ... : 0n` for a bigint-or-null
OrZero(x) == IF Truthy(x) THEN x ELSE 0

\* What oracle.getL1Fee does: throws (no oracle on the network, call
\* reverted) or answers a fee.
OracleFails == Undefined

\* A data-fee helper that passes the oracle's failure on as a fee of its own
\* (the slip the claim about a failing oracle excludes).
GetL1DataFeeNoFallback(oracle) == IF oracle = OracleFails THEN 1 ELSE oracle

\* getL1DataFee: the oracle's fee, 0 when the call throws.
GetL1DataFee(oracle) == IF oracle = OracleFails THEN 0 ELSE oracle

\* gasUtils.estimateGas: the provider's estimate plus 20%.
EstimateGasWithBuffer(estimate) == (estimate * 120) \div 100

NoFeeResult(fn, message) ==
    [fn |-> fn, threw |-> TRUE, message |-> message, gas |-> 0,
     gasPrice |-> 0, maxFeePerGas |-> 0, l2ExecutionFee |-> 0,
     l1DataFee |-> 0, totalFee |-> 0]

\* gas.execute, case getTotalFeeEstimate
GetTotalFeeEstimate(p) ==
    IF p.estimate = Undefined
    THEN NoFeeResult("getTotalFeeEstimate", "provider request failed")
    ELSE LET l2Fee == IF Truthy(p.gasPrice) THEN p.estimate * p.gasPrice ELSE 0
             l1Fee == IF p.oracle = OracleFails THEN 0 ELSE p.oracle
         IN [fn |-> "getTotalFeeEstimate", threw |-> FALSE, message |-> "",
             gas |-> p.estimate, gasPrice |-> p.gasPrice,
             maxFeePerGas |-> p.maxFeePerGas,
             l2ExecutionFee |-> l2Fee, l1DataFee |-> l1Fee,
             totalFee |-> l2Fee + l1Fee]

\* gasUtils.calculateTotalFee
CalculateTotalFee(p) ==
    IF p.estimate = Undefined
    THEN NoFeeResult("calculateTotalFee", "Gas estimation failed")
    ELSE LET gasLimit == EstimateGasWithBuffer(p.estimate)
             gasPrice == OrZero(p.gasPrice)
             maxFeePerGas == OrElse(p.maxFeePerGas, gasPrice)
             l2ExecutionFee == gasLimit * maxFeePerGas
             l1DataFee == IF p.oracleAddress /\ p.hasData
                          THEN GetL1DataFee(p.oracle) ELSE 0
         IN [fn |-> "calculateTotalFee", threw |-> FALSE, message |-> "",
             gas |-> gasLimit, gasPrice |-> gasPrice,
             maxFeePerGas |-> maxFeePerGas,
             l2ExecutionFee |-> l2ExecutionFee, l1DataFee |-> l1DataFee,
             totalFee |-> l2ExecutionFee + l1DataFee]

\* The gas resource's getTotalFeeEstimate runs.
CallGetTotalFeeEstimate ==
    /\ client.status = "gas"
    /\ client' = [client EXCEPT !.result = GetTotalFeeEstimate(client.provider)]
    /\ UNCHANGED <<triggerVars, exec>>

\* calculateTotalFee runs.
CallCalculateTotalFee ==
    /\ client.status = "gas"
    /\ client' = [client EXCEPT !.result = CalculateTotalFee(client.provider)]
    /\ UNCHANGED <<triggerVars, exec>>

InitGasFee ==
    /\ triggerType = "none"
    /\ params = DefaultParams
    /\ staticData = EmptyStaticData
    /\ chain = <<>>
    /\ finalized = 0
    /\ nonce = 0
    /\ emitted = <<>>
    /\ outcome = "idle"
    /\ firstReturn = 0
    /\ exec = IdleExec
    /\ \E estimate \in {Undefined} \cup 0..MaxGas,
         gasPrice \in {Undefined} \cup 0..MaxPrice,
         maxFeePerGas \in {Undefined} \cup 0..MaxPrice,
         oracle \in {OracleFails} \cup 0..MaxL1Fee,
         oracleAddress \in BOOLEAN, hasData \in BOOLEAN :
         client = [status |-> "gas",
                   provider |-> [estimate |-> estimate, gasPrice |-> gasPrice,
                                 maxFeePerGas |-> maxFeePerGas,
                                 oracle |-> oracle,
                                 oracleAddress |-> oracleAddress,
                                 hasData |-> hasData],
                   result |-> NoFeeResult("", "")]

NextGasFee == CallGetTotalFeeEstimate \/ CallCalculateTotalFee

SpecGasFee == InitGasFee /\ [][NextGasFee]_vars

\* The operation ran and the provider answered its estimate.
FeeReported ==
    /\ client.status = "gas"
    /\ client.result.fn # ""
    /\ client.provider.estimate # Undefined

\* C15 as stated: in both operations the total fee is the L2 execution fee
\* plus the L1 data fee, the L2 execution fee is the reported gas amount times
\* the reported gas price, and with a failing oracle the L1 data fee is 0 and
\* a result is still returned.
C15_TotalIsGasTimesGasPricePlusL1 ==
    FeeReported =>
        /\ ~client.result.threw
        /\ client.result.totalFee =
             client.result.l2ExecutionFee + client.result.l1DataFee
        /\ client.result.l2ExecutionFee =
             client.result.gas * OrZero(client.result.gasPrice)
        /\ client.provider.oracle = OracleFails => client.result.l1DataFee = 0

\* C15, amended: the total is the L2 execution fee plus the L1 data fee; the
\* L2 execution fee is the gas estimate times gasPrice in getTotalFeeEstimate
\* and the estimate plus 20% times maxFeePerGas (gasPrice when the provider
\* gives none) in calculateTotalFee; with a failing oracle the L1 data fee is
\* 0 and a result is still returned.
C15_TotalIsExecutionFeePlusL1 ==
    FeeReported =>
        /\ ~client.result.threw
        /\ client.result.totalFee =
             client.result.l2ExecutionFee + client.result.l1DataFee
        /\ client.result.fn = "getTotalFeeEstimate" =>
             /\ client.result.gas = client.provider.estimate
             /\ client.result.l2ExecutionFee =
                  client.provider.estimate * OrZero(client.provider.gasPrice)
             /\ client.provider.oracle # OracleFails =>
                  client.result.l1DataFee = client.provider.oracle
        /\ client.result.fn = "calculateTotalFee" =>
             /\ client.result.gas = (client.provider.estimate * 120) \div 100
             /\ client.result.l2ExecutionFee =
                  client.result.gas * client.result.maxFeePerGas
             /\ client.result.maxFeePerGas =
                  IF Truthy(client.provider.maxFeePerGas)
                  THEN client.provider.maxFeePerGas
                  ELSE OrZero(client.provider.gasPrice)
        /\ client.provider.oracle = OracleFails => client.result.l1DataFee = 0

\* calculateTotalFee returned a fee although the oracle call failed, with a
\* maxFeePerGas that is not the gas price.
C15_Witness ==
    /\ FeeReported
    /\ client.result.fn = "calculateTotalFee"
    /\ client.provider.oracle = OracleFails
    /\ client.provider.oracleAddress /\ client.provider.hasData
    /\ client.result.l2ExecutionFee > 0
    /\ client.result.maxFeePerGas # client.result.gasPrice
    /\ client.result.totalFee = client.result.l2ExecutionFee

----------------------------------------------------------------------------
(* EventSubscriber: subscriptions that poll the provider for logs.  Every  *)
(* subscription has its own interval callback; the callback awaits         *)
(* getBlockNumber and then getLogs, so callbacks of different              *)
(* subscriptions interleave at the second await.  All of them read and     *)
(* write the one field lastBlock.                                          *)

SubscriptionIds == {1, 2}

SubscriberLogs == {Erc20Transfer, DepositLog}

SubscriberFilters ==
    {[address |-> TokenContract, topics |-> <<TransferTopic>>],
     [address |-> "",
      topics |-> <<EventId("DepositETH(address,address,uint256,bytes)")>>]}

NoSubscription ==
    [active |-> FALSE, filter |-> [address |-> "", topics |-> <<>>],
     since |-> 0, pending |-> FALSE, fromBlock |-> 0, toBlock |-> 0,
     delivered |-> <<>>]

\* A block is mined.
MineSubscribedBlock ==
    /\ Len(chain) < MaxHead
    /\ \E blk \in {EmptyBlock} \cup
                  {[logs |-> <<l>>, txs |-> <<>>] :
                      l \in SubscriberLogs \cap UnusedLogs(chain)} :
         chain' = Append(chain, blk)
    /\ outcome' = "idle"
    /\ UNCHANGED <<triggerType, params, staticData, finalized, nonce, emitted,
                   firstReturn, exec, client>>

\* subscribe(filter, callback)
Subscribe ==
    /\ client.status = "subscriber"
    /\ \E id \in SubscriptionIds, filter \in SubscriberFilters :
         /\ client.subs[id] = NoSubscription
         /\ client' = [client EXCEPT
               !.lastBlock = IF @ = 0 THEN Len(chain) ELSE @,
               !.subs[id] = [NoSubscription EXCEPT
                               !.active = TRUE, !.filter = filter,
                               !.since = Len(chain)]]
    /\ UNCHANGED <<triggerVars, exec>>

\* The interval callback of a subscription up to its getLogs request.
TickStart ==
    /\ client.status = "subscriber"
    /\ \E id \in SubscriptionIds :
         /\ client.subs[id].active
         /\ ~client.subs[id].pending
         /\ LET currentBlock == Len(chain)
            IN client' =
                 IF currentBlock > client.lastBlock
                 THEN [client EXCEPT
                         !.subs[id].pending = TRUE,
                         !.subs[id].fromBlock = client.lastBlock + 1,
                         !.subs[id].toBlock = currentBlock]
                 ELSE client
    /\ UNCHANGED <<triggerVars, exec>>

\* The rest of the callback: the logs arrive, each is handed to the
\* subscription's callback, lastBlock becomes the callback's currentBlock.
TickFinish ==
    /\ client.status = "subscriber"
    /\ \E id \in SubscriptionIds :
         /\ client.subs[id].pending
         /\ LET sub == client.subs[id]
                logs == GetLogs(chain, sub.filter, sub.fromBlock, sub.toBlock)
            IN client' = [client EXCEPT
                  !.subs[id].pending = FALSE,
                  !.subs[id].delivered = @ \o logs,
                  !.lastBlock = sub.toBlock]
    /\ UNCHANGED <<triggerVars, exec>>

\* unsubscribe(id): the interval is cleared; a callback that is already
\* running goes on.
Unsubscribe ==
    /\ client.status = "subscriber"
    /\ \E id \in SubscriptionIds :
         /\ client.subs[id].active
         /\ client' = [client EXCEPT !.subs[id].active = FALSE]
    /\ UNCHANGED <<triggerVars, exec>>

InitSubscriber ==
    /\ triggerType = "none"
    /\ params = DefaultParams
    /\ staticData = EmptyStaticData
    /\ chain = <<EmptyBlock>>
    /\ finalized = 0
    /\ nonce = 0
    /\ emitted = <<>>
    /\ outcome = "idle"
    /\ firstReturn = 0
    /\ exec = IdleExec
    /\ client = [status |-> "subscriber", lastBlock |-> 0,
                 subs |-> [id \in SubscriptionIds |-> NoSubscription]]

NextSubscriber ==
    MineSubscribedBlock \/ Subscribe \/ TickStart \/ TickFinish \/ Unsubscribe

SpecSubscriber == InitSubscriber /\ [][NextSubscriber]_vars

TimesDelivered(sub, b) ==
    Cardinality({k \in 1..Len(sub.delivered) : sub.delivered[k] = b})

\* C16: a subscription's callback gets every log that matches its filter in
\* a block mined after it subscribed exactly once, whatever the other
\* subscriptions do: a matching block that no later request of the subscriber
\* will ask for (it is at or below lastBlock and outside the subscription's
\* running request) has been delivered once, and no block is delivered twice.
C16_SubscriptionsAreIndependent ==
    client.status = "subscriber" =>
        \A id \in SubscriptionIds :
            LET sub == client.subs[id]
            IN sub.active =>
                 \A b \in LogBlocks(chain) :
                    (b > sub.since /\ Matches(sub.filter, chain[b].logs[1])) =>
                        /\ TimesDelivered(sub, b) <= 1
                        /\ (/\ b <= client.lastBlock
                            /\ ~(sub.pending /\ sub.fromBlock <= b
                                             /\ b <= sub.toBlock)) =>
                              TimesDelivered(sub, b) = 1

----------------------------------------------------------------------------
(* The log-window kinds against a provider whose answers to getBlockNumber *)
(* need not grow (requests served by nodes that are not equally far): a    *)
(* poll observes any head up to the chain's.  The getLogs requests of the  *)
(* latest polls are recorded in client.queries.                            *)

\* The record of getLogs requests keeps the two most recent ones.
Recorded(queries, query) ==
    IF Len(queries) < 2 THEN Append(queries, query)
    ELSE <<queries[2], query>>

\* Transfer logs of the watched contract: an ERC-20 transfer (three topics)
\* and an ERC-721 mint (four topics, empty data).
TransferLogs == {Erc20Transfer, Erc721Mint}

MineTransferBlock ==
    /\ Len(chain) < MaxHead
    /\ \E blk \in {EmptyBlock} \cup
                  {[logs |-> <<l>>, txs |-> <<>>] :
                      l \in TransferLogs \cap UnusedLogs(chain)} :
         chain' = Append(chain, blk)
    /\ outcome' = "idle"
    /\ UNCHANGED <<triggerType, params, staticData, finalized, nonce, emitted,
                   firstReturn, exec, client>>

\* A window that opens whenever the head differs from the cursor (the slip
\* the claim about a head that goes backwards excludes).
WindowOpenOnChange(currentBlock, lastBlock) == currentBlock # lastBlock

\* `if (currentBlock > lastBlock)`
WindowOpen(currentBlock, lastBlock) == currentBlock > lastBlock

\* One poll of a log-window kind; first and current are what the two
\* getBlockNumber calls answer, rejected whether the getLogs request fails.
PollLogWindowObserved ==
    /\ triggerType \in LogWindowKinds
    /\ \E first \in (IF Truthy(staticData.lastBlock) THEN {Len(chain)}
                     ELSE 1..Len(chain)),
          current \in 1..Len(chain), rejected \in BOOLEAN :
         LET lastBlock == OrElse(staticData.lastBlock, first)
             currentBlock == current
             logs == GetLogs(chain, LogFilter(triggerType, params),
                             lastBlock + 1, currentBlock)
             \* the getLogs request is rejected, or a returned log does not
             \* decode
             throws == \/ rejected
                       \/ \E k \in 1..Len(logs) :
                            ~Decodes(triggerType, chain[logs[k]].logs[1])
             events == MapEvents(triggerType, logs)
             query == [persisted |-> Truthy(staticData.lastBlock),
                       cursor |-> lastBlock, observed |-> currentBlock,
                       fromBlock |-> lastBlock + 1, toBlock |-> currentBlock,
                       threw |-> throws]
         IN  /\ IF WindowOpen(currentBlock, lastBlock)
                THEN /\ client' = [client EXCEPT
                                     !.queries = Recorded(@, query),
                                     !.observed = currentBlock]
                     /\ IF throws
                        THEN /\ outcome' = "error"
                             /\ UNCHANGED <<staticData, emitted>>
                        ELSE /\ staticData' =
                                  [staticData EXCEPT !.lastBlock = currentBlock]
                             /\ emitted' = emitted \o events
                             /\ outcome' = IF events = <<>> THEN "null"
                                           ELSE "events"
                ELSE /\ client' = [client EXCEPT !.observed = currentBlock]
                     /\ outcome' = "null"
                     /\ UNCHANGED <<staticData, emitted>>
    /\ UNCHANGED <<triggerType, params, chain, finalized, nonce, firstReturn,
                   exec>>

InitLogObserved ==
    /\ triggerType \in LogWindowKinds
    /\ params = DefaultParams
    /\ staticData = EmptyStaticData
    /\ chain = <<EmptyBlock>>
    /\ finalized = 0
    /\ nonce = 0
    /\ emitted = <<>>
    /\ outcome = "idle"
    /\ firstReturn = 0
    /\ exec = IdleExec
    /\ client = [status |-> "provider", queries |-> <<>>, observed |-> 0]

NextLogObserved == MineTransferBlock \/ PollLogWindowObserved

SpecLogObserved == InitLogObserved /\ [][NextLogObserved]_vars

\* Every recorded query made with a persisted cursor asks for exactly
\* [lastBlock + 1, currentBlock].
ExactRanges(queries) ==
    \A k \in 1..Len(queries) :
        queries[k].persisted =>
            /\ queries[k].fromBlock = queries[k].cursor + 1
            /\ queries[k].toBlock = queries[k].observed
            /\ queries[k].fromBlock <= queries[k].toBlock

NoBlockEmittedTwice(events) ==
    \A j, k \in 1..Len(events) :
        j # k => events[j].blockNumber # events[k].blockNumber

\* C17 as stated: with a persisted cursor every querying poll asks for
\* exactly [lastBlock + 1, currentBlock]; the ranges of consecutive querying
\* polls abut; lastBlock never decreases, also when the observed head goes
\* backwards; no log is emitted by two polls.
C17_ConsecutiveRangesAbut ==
    [][/\ Truthy(staticData.lastBlock) =>
            staticData'.lastBlock >= staticData.lastBlock
       /\ ExactRanges(client'.queries)
       /\ \A k \in 1..(Len(client'.queries) - 1) :
             client'.queries[k + 1].persisted =>
                client'.queries[k + 1].fromBlock =
                   client'.queries[k].toBlock + 1
       /\ NoBlockEmittedTwice(emitted')]_vars

\* C17, amended: as above, but the range of a querying poll abuts the range
\* of the previous querying poll only when that poll completed; after a poll
\* that threw (its getLogs request was rejected, or a returned log did not
\* decode), the next range starts at the same block again.
C17_RangesAbutAfterCompletedPolls ==
    [][/\ Truthy(staticData.lastBlock) =>
            staticData'.lastBlock >= staticData.lastBlock
       /\ ExactRanges(client'.queries)
       /\ \A k \in 1..(Len(client'.queries) - 1) :
             client'.queries[k + 1].persisted =>
                client'.queries[k + 1].fromBlock =
                   IF client'.queries[k].threw
                   THEN client'.queries[k].fromBlock
                   ELSE client'.queries[k].toBlock + 1
       /\ NoBlockEmittedTwice(emitted')]_vars

\* Two polls queried abutting ranges and emitted, and the poll that just ran
\* observed a head below the cursor.
C17_Witness ==
    /\ triggerType \in LogWindowKinds
    /\ client.status = "provider"
    /\ Len(client.queries) >= 2
    /\ client.queries[2].persisted
    /\ ~client.queries[1].threw
    /\ client.queries[2].fromBlock = client.queries[1].toBlock + 1
    /\ Len(emitted) >= 1
    /\ outcome = "null"
    /\ client.observed < staticData.lastBlock

----------------------------------------------------------------------------
(* C18: returned logs and the completion of a poll (SpecLog) *)

\* C18: a poll of a log-window kind that observes currentBlock > lastBlock
\* and whose getLogs request returns (every request of SpecLog does)
\* completes without throwing and persists lastBlock = currentBlock,
\* whatever logs were returned.
C18_ReturnedLogsNeverFailThePoll ==
    [][(/\ triggerType \in LogWindowKinds
        /\ outcome' # "idle"
        /\ Len(chain') > OrElse(staticData.lastBlock, Len(chain)))
       => (/\ outcome' # "error"
           /\ staticData'.lastBlock = Len(chain'))]_vars

----------------------------------------------------------------------------
(* C19: what one poll of the newBlock kind does (SpecNewBlock) *)

\* C19: the first poll with no stored cursor stores the head as lastBlock and
\* emits nothing; every later poll emits at most one item, only when
\* currentBlock >= lastBlock + blockInterval, the item's blockNumber is the
\* observed head and lastBlock is then that head; a poll with
\* currentBlock < lastBlock + blockInterval emits nothing and leaves the
\* static data unchanged.
C19_NewBlockPoll ==
    [][(triggerType = "newBlock" /\ outcome' # "idle") =>
         LET currentBlock == Len(chain)
             lastBlock == staticData.lastBlock
         IN  IF ~Truthy(lastBlock)
             THEN /\ staticData' = [staticData EXCEPT !.lastBlock = currentBlock]
                  /\ emitted' = emitted
             ELSE /\ \/ emitted' = emitted
                     \/ /\ currentBlock >= lastBlock + params.blockInterval
                        /\ Len(emitted') = Len(emitted) + 1
                        /\ SubSeq(emitted', 1, Len(emitted)) = emitted
                        /\ emitted'[Len(emitted')].blockNumber = currentBlock
                        /\ staticData'.lastBlock = currentBlock
                  /\ currentBlock < lastBlock + params.blockInterval =>
                        /\ emitted' = emitted
                        /\ staticData' = staticData]_vars

\* A later poll has just emitted the block two after the stored cursor, with
\* an interval of 2.
C19_Witness ==
    /\ triggerType = "newBlock"
    /\ params.blockInterval = 2
    /\ outcome = "events"
    /\ Len(emitted) = 1
    /\ emitted[1].blockNumber = Len(chain)
    /\ staticData.lastBlock = Len(chain)
    /\ firstReturn = Len(chain) - 2

----------------------------------------------------------------------------
(* ScrollTrigger.poll, await by await.  exec holds the position of the     *)
(* poll in progress: the provider call it waits for (pc), its locals, and  *)
(* the static data and the number of emitted items at its entry.  Every    *)
(* provider call either answers or throws; poll() has no try/catch, so a   *)
(* throw ends the poll.                                                    *)

TriggerKinds ==
    {"newBlock", "blockFinalized", "transactionConfirmed", "addressActivity",
     "largeTransaction"} \cup LogWindowKinds

NoPoll ==
    [status |-> "idle", pc |-> "return", before |-> EmptyStaticData,
     emittedBefore |-> 0, lastBlock |-> 0, currentBlock |-> 0, blockNum |-> 0,
     receiptBlock |-> 0, currentNonce |-> 0, events |-> <<>>]

\* The poll goes on to the provider call pc, or returns, with static data sd.
Continue(f, pc, sd) ==
    [pc |-> pc, sd |-> sd, lastBlock |-> f.lastBlock,
     currentBlock |-> f.currentBlock, blockNum |-> f.blockNum,
     receiptBlock |-> f.receiptBlock, currentNonce |-> f.currentNonce,
     events |-> f.events]

\* The first provider call of the case ("return": none).
FirstAwait(kind, sd, p) ==
    CASE kind = "newBlock" -> "getBlockNumber"
      [] kind = "blockFinalized" -> "getBlock(finalized)"
      [] kind = "transactionConfirmed" ->
           IF ~sd.triggered /\ p.transactionHash # ""
           THEN "getTransactionReceipt" ELSE "return"
      [] kind = "addressActivity" -> "getTransactionCount"
      [] OTHER -> IF Truthy(sd.lastBlock) THEN "getBlockNumber"
                  ELSE "getBlockNumber (lastBlock)"

\* What the provider may answer to the call pc; 0 stands for null.
Answers(pc, ch) ==
    CASE pc \in {"getBlockNumber", "getBlockNumber (lastBlock)"} -> {Len(ch)}
      [] pc \in {"getBlock(finalized)", "getTransactionReceipt"} -> 0..Len(ch)
      [] pc = "getTransactionCount" -> 0..MaxNonce
      [] pc = "getBlock" -> {0, 1}
      [] OTHER -> {0}

\* A newBlock case that stores the cursor before it fetches the block.
NewBlockStepStoringFirst(f, sd, p, answer) ==
    IF f.pc = "getBlockNumber"
    THEN LET lastBlock == OrElse(sd.lastBlock, 0)
             currentBlock == answer
             stored == [sd EXCEPT !.lastBlock = currentBlock]
         IN  IF NoCursor(lastBlock)
             THEN Continue(f, "return", stored)
             ELSE IF IntervalReached(currentBlock, lastBlock, p.blockInterval)
                  THEN [Continue(f, "getBlock", stored)
                           EXCEPT !.lastBlock = lastBlock,
                                  !.currentBlock = currentBlock]
                  ELSE Continue(f, "return", sd)
    ELSE [Continue(f, "return", sd)
             EXCEPT !.events = IF answer # 0
                               THEN <<LogEvent("newBlock", f.currentBlock)>>
                               ELSE <<>>]

\* case 'newBlock', after the provider call f.pc has answered.
NewBlockStep(f, sd, p, answer) ==
    IF f.pc = "getBlockNumber"
    THEN LET lastBlock == OrElse(sd.lastBlock, 0)
             currentBlock == answer
         IN  IF NoCursor(lastBlock)
             THEN Continue(f, "return", [sd EXCEPT !.lastBlock = currentBlock])
             ELSE IF IntervalReached(currentBlock, lastBlock, p.blockInterval)
                  THEN [Continue(f, "getBlock", sd)
                           EXCEPT !.lastBlock = lastBlock,
                                  !.currentBlock = currentBlock]
                  ELSE Continue(f, "return", sd)
    ELSE [Continue(f, "return", [sd EXCEPT !.lastBlock = f.currentBlock])
             EXCEPT !.events = IF answer # 0
                               THEN <<LogEvent("newBlock", f.currentBlock)>>
                               ELSE <<>>]

\* case 'blockFinalized'
BlockFinalizedStep(f, sd, p, answer) ==
    LET lastFinalized == OrElse(sd.lastFinalized, 0)
    IN  IF answer # 0 /\ FinalizedAdvanced(answer, lastFinalized)
        THEN [Continue(f, "return", [sd EXCEPT !.lastFinalized = answer])
                 EXCEPT !.events = <<LogEvent("blockFinalized", answer)>>]
        ELSE Continue(f, "return", sd)

\* case 'transactionConfirmed'
TransactionConfirmedStep(f, sd, p, answer) ==
    IF f.pc = "getTransactionReceipt"
    THEN IF answer # 0
         THEN [Continue(f, "getBlockNumber", sd) EXCEPT !.receiptBlock = answer]
         ELSE Continue(f, "return", sd)
    ELSE LET confirmations == answer - f.receiptBlock
         IN  IF confirmations >= p.confirmations
             THEN [Continue(f, "return", [sd EXCEPT !.triggered = TRUE])
                      EXCEPT !.events =
                         <<LogEvent("transactionConfirmed", f.receiptBlock)>>]
             ELSE Continue(f, "return", sd)

\* case 'addressActivity'
AddressActivityStep(f, sd, p, answer) ==
    IF f.pc = "getTransactionCount"
    THEN LET lastNonce == OrElse(sd.lastNonce, 0)
         IN  IF NonceChanged(answer, lastNonce)
             THEN [Continue(f, "getBalance", sd) EXCEPT !.currentNonce = answer]
             ELSE Continue(f, "return", sd)
    ELSE [Continue(f, "return", [sd EXCEPT !.lastNonce = f.currentNonce])
             EXCEPT !.events = <<LogEvent("addressActivity", f.currentNonce)>>]

\* The cases that read logs: tokenTransfer, nftTransfer, contractEvent,
\* bridgeDeposit, bridgeWithdrawal, canvasBadgeMinted.  "decode" stands for
\* the throw of the loop over the returned logs.
LogWindowStep(kind, f, sd, p, ch, answer) ==
    CASE f.pc = "getBlockNumber (lastBlock)" ->
           [Continue(f, "getBlockNumber", sd) EXCEPT !.lastBlock = answer]
      [] f.pc = "getBlockNumber" ->
           IF WindowOpen(answer, f.lastBlock)
           THEN [Continue(f, "getLogs", sd) EXCEPT !.currentBlock = answer]
           ELSE Continue(f, "return", sd)
      [] OTHER ->
           LET logs == GetLogs(ch, LogFilter(kind, p),
                               f.lastBlock + 1, f.currentBlock)
           IN  IF \E k \in 1..Len(logs) : ~Decodes(kind, ch[logs[k]].logs[1])
               THEN Continue(f, "decode", sd)
               ELSE [Continue(f, "return",
                              [sd EXCEPT !.lastBlock = f.currentBlock])
                        EXCEPT !.events = MapEvents(kind, logs)]

\* case 'largeTransaction'; getBlock is called once per scanned block.
LargeTransactionStep(f, sd, p, ch, answer) ==
    CASE f.pc = "getBlockNumber (lastBlock)" ->
           [Continue(f, "getBlockNumber", sd) EXCEPT !.lastBlock = answer]
      [] f.pc = "getBlockNumber" ->
           IF answer > f.lastBlock
           THEN [Continue(f, "getBlock", sd)
                    EXCEPT !.currentBlock = answer, !.blockNum = f.lastBlock + 1]
           ELSE Continue(f, "return", sd)
      [] OTHER ->
           LET found == IF answer # 0
                        THEN MapEvents("largeTransaction",
                                LargeBlocks(ch, p, f.blockNum, f.blockNum))
                        ELSE <<>>
           IN  IF f.blockNum + 1 <= ScannedTo(f.lastBlock, f.currentBlock)
               THEN [Continue(f, "getBlock", sd)
                        EXCEPT !.blockNum = f.blockNum + 1,
                               !.events = f.events \o found]
               ELSE [Continue(f, "return",
                              [sd EXCEPT !.lastBlock = f.currentBlock])
                        EXCEPT !.events = f.events \o found]

Step(kind, f, sd, p, ch, answer) ==
    CASE kind = "newBlock" -> NewBlockStep(f, sd, p, answer)
      [] kind = "blockFinalized" -> BlockFinalizedStep(f, sd, p, answer)
      [] kind = "transactionConfirmed" -> TransactionConfirmedStep(f, sd, p, answer)
      [] kind = "addressActivity" -> AddressActivityStep(f, sd, p, answer)
      [] kind = "largeTransaction" -> LargeTransactionStep(f, sd, p, ch, answer)
      [] OTHER -> LogWindowStep(kind, f, sd, p, ch, answer)

\* poll() is entered and runs to its first provider call.
StartPoll ==
    /\ exec.status # "running"
    /\ Len(emitted) < MaxEmitted
    /\ LET pc == FirstAwait(triggerType, staticData, params)
       IN  /\ exec' = [NoPoll EXCEPT
                          !.status = IF pc = "return" THEN "returned"
                                     ELSE "running",
                          !.pc = pc,
                          !.before = staticData,
                          !.emittedBefore = Len(emitted),
                          !.lastBlock = OrElse(staticData.lastBlock, 0)]
           /\ outcome' = IF pc = "return" THEN "null" ELSE "idle"
    /\ UNCHANGED <<triggerType, params, staticData, chain, finalized, nonce,
                   emitted, firstReturn, client>>

\* The awaited provider call answers and the poll runs to its next provider
\* call, to its return, or to a throw of its own.
AwaitReturns ==
    /\ exec.status = "running"
    /\ \E answer \in Answers(exec.pc, chain) :
         LET next == Step(triggerType, exec, staticData, params, chain, answer)
         IN  /\ exec' = [exec EXCEPT
                            !.status = CASE next.pc = "return" -> "returned"
                                         [] next.pc = "decode" -> "threw"
                                         [] OTHER -> "running",
                            !.pc = IF next.pc = "decode" THEN exec.pc
                                   ELSE next.pc,
                            !.lastBlock = next.lastBlock,
                            !.currentBlock = next.currentBlock,
                            !.blockNum = next.blockNum,
                            !.receiptBlock = next.receiptBlock,
                            !.currentNonce = next.currentNonce,
                            !.events = next.events]
             /\ staticData' = next.sd
             /\ emitted' = IF next.pc = "return" THEN emitted \o next.events
                           ELSE emitted
             /\ outcome' = CASE next.pc = "decode" -> "error"
                             [] next.pc = "return" /\ next.events = <<>> -> "null"
                             [] next.pc = "return" -> "events"
                             [] OTHER -> "idle"
    /\ UNCHANGED <<triggerType, params, chain, finalized, nonce, firstReturn,
                   client>>

\* The awaited provider call throws; the error leaves poll().
AwaitThrows ==
    /\ exec.status = "running"
    /\ exec' = [exec EXCEPT !.status = "provider threw"]
    /\ outcome' = "error"
    /\ UNCHANGED <<triggerType, params, staticData, chain, finalized, nonce,
                   emitted, firstReturn, client>>

\* The chain grows, also while a poll waits.
MineDuringPoll ==
    /\ Len(chain) < MaxHead
    /\ \E blk \in {EmptyBlock} \cup
                  {[logs |-> <<l>>, txs |-> <<>>] :
                      l \in TransferLogs \cap UnusedLogs(chain)} :
         chain' = Append(chain, blk)
    /\ UNCHANGED <<triggerType, params, staticData, finalized, nonce, emitted,
                   outcome, firstReturn, exec, client>>

InitPollSteps ==
    /\ triggerType \in TriggerKinds
    /\ params = [DefaultParams EXCEPT !.transactionHash = "0xt1"]
    /\ staticData = EmptyStaticData
    /\ chain = <<EmptyBlock>>
    /\ finalized = 0
    /\ nonce = 0
    /\ emitted = <<>>
    /\ outcome = "idle"
    /\ firstReturn = 0
    /\ exec = NoPoll
    /\ client = IdleClient

NextPollSteps == MineDuringPoll \/ StartPoll \/ AwaitReturns \/ AwaitThrows

SpecPollSteps == InitPollSteps /\ [][NextPollSteps]_vars

----------------------------------------------------------------------------
(* BatchClient against the ScrollChain contract on L1.  client.l1 is the   *)
(* contract's state: batches 1..lastCommitted have a commitment hash,      *)
(* batches 0..lastFinalized are finalized.  getPendingBatches runs read by *)
(* read while L1 commits and finalizes further batches.                    *)

MaxBatch == 4         \* batches L1 commits in one behaviour
MaxCalls == 2         \* calls of getPendingBatches in one behaviour

\* for (let i = lastFinalizedBatchIndex + 1; i <= lastFinalizedBatchIndex + 100; i++)
CommitScanLimit == 100

\* scrollChain.committedBatches(i) !== ethers.ZeroHash; batch 0 is the
\* genesis batch.
HasCommitment(l1, i) == i <= l1.lastCommitted

\* scrollChain.isBatchFinalized(i)
IsFinalizedOnChain(l1, i) == i <= l1.lastFinalized

\* A classification that overlooks the finalized flag.
ClassifyIgnoringFinalized(isFinalized, hasCommitment) ==
    IF hasCommitment THEN "committed" ELSE "pending"

\* BatchClient.getBatchInfo: the status from the isBatchFinalized flag and
\* the commitment hash.
Classify(isFinalized, hasCommitment) ==
    IF isFinalized THEN "finalized"
    ELSE IF hasCommitment THEN "committed"
    ELSE "pending"

GetBatchInfo(l1, i) ==
    [index |-> i,
     status |-> Classify(IsFinalizedOnChain(l1, i), HasCommitment(l1, i))]

L1Commits ==
    /\ client.status = "batch"
    /\ client.l1.lastCommitted < MaxBatch
    /\ client' = [client EXCEPT !.l1.lastCommitted = @ + 1]
    /\ UNCHANGED <<triggerVars, exec>>

L1Finalizes ==
    /\ client.status = "batch"
    /\ \E n \in (client.l1.lastFinalized + 1)..client.l1.lastCommitted :
          client' = [client EXCEPT !.l1.lastFinalized = n]
    /\ UNCHANGED <<triggerVars, exec>>

\* getPendingBatches is called and getRollupInfo sends its first read.
CallGetPendingBatches ==
    /\ client.status = "batch"
    /\ client.pc \in {"idle", "returned"}
    /\ client.calls < MaxCalls
    /\ client' = [client EXCEPT !.pc = "lastFinalizedBatchIndex",
                                !.calls = @ + 1,
                                !.batches = <<>>]
    /\ UNCHANGED <<triggerVars, exec>>

\* getRollupInfo: lastFinalizedBatchIndex() answers.
ReadLastFinalized ==
    /\ client.status = "batch"
    /\ client.pc = "lastFinalizedBatchIndex"
    /\ client' = [client EXCEPT
                     !.pc = "committedBatches",
                     !.lastFinalizedBatchIndex = client.l1.lastFinalized,
                     !.lastCommittedBatchIndex = client.l1.lastFinalized,
                     !.i = client.l1.lastFinalized + 1]
    /\ UNCHANGED <<triggerVars, exec>>

\* The loop of getPendingBatches is entered with i, or the method returns.
EnterBatchLoop(c, lastCommittedBatchIndex) ==
    [c EXCEPT !.lastCommittedBatchIndex = lastCommittedBatchIndex,
              !.i = c.lastFinalizedBatchIndex + 1,
              !.pc = IF c.lastFinalizedBatchIndex + 1 <= lastCommittedBatchIndex
                     THEN "getBatchInfo" ELSE "returned"]

\* getRollupInfo: committedBatches(i) answers; the scan stops at the first
\* zero hash or after CommitScanLimit batches.
ReadCommitment ==
    /\ client.status = "batch"
    /\ client.pc = "committedBatches"
    /\ client' =
          IF ~HasCommitment(client.l1, client.i)
          THEN EnterBatchLoop(client, client.lastCommittedBatchIndex)
          ELSE IF client.i + 1 <= client.lastFinalizedBatchIndex + CommitScanLimit
               THEN [client EXCEPT !.lastCommittedBatchIndex = client.i,
                                   !.i = client.i + 1]
               ELSE EnterBatchLoop(client, client.i)
    /\ UNCHANGED <<triggerVars, exec>>

\* getPendingBatches: getBatchInfo(i) answers and is pushed.
ReadBatchInfo ==
    /\ client.status = "batch"
    /\ client.pc = "getBatchInfo"
    /\ client' = [client EXCEPT
                     !.batches = Append(@, GetBatchInfo(client.l1, client.i)),
                     !.i = client.i + 1,
                     !.pc = IF client.i + 1 <= client.lastCommittedBatchIndex
                            THEN "getBatchInfo" ELSE "returned"]
    /\ UNCHANGED <<triggerVars, exec>>

InitBatch ==
    /\ triggerType = "none"
    /\ params = DefaultParams
    /\ staticData = EmptyStaticData
    /\ chain = <<>>
    /\ finalized = 0
    /\ nonce = 0
    /\ emitted = <<>>
    /\ outcome = "idle"
    /\ firstReturn = 0
    /\ exec = IdleExec
    /\ client = [status |-> "batch",
                 l1 |-> [lastCommitted |-> 0, lastFinalized |-> 0],
                 pc |-> "idle", calls |-> 0,
                 lastFinalizedBatchIndex |-> 0, lastCommittedBatchIndex |-> 0,
                 i |-> 0, batches |-> <<>>]

NextBatch ==
    \/ L1Commits
    \/ L1Finalizes
    \/ CallGetPendingBatches
    \/ ReadLastFinalized
    \/ ReadCommitment
    \/ ReadBatchInfo

SpecBatch == InitBatch /\ [][NextBatch]_vars

\* C21: every BatchInfo getPendingBatches returns has status COMMITTED, also
\* when L1 commits or finalizes batches between the rollup-info read and the
\* per-batch reads.
C21_PendingBatchesAreCommitted ==
    (client.status = "batch" /\ client.pc = "returned") =>
        \A k \in 1..Len(client.batches) :
            client.batches[k].status = "committed"

----------------------------------------------------------------------------
(* proofUtils: the batch-status functions and the finalization estimate,   *)
(* and the classification of BatchClient.getBatchInfo, applied to inputs   *)
(* drawn at Init.                                                          *)

\* Values of avgBatchTimeMinutes (15 is the default).
AvgBatchTimes == {1, 15, 20}

\* isBatchFinalized(batchIndex, lastFinalizedIndex)
IsBatchFinalized(batchIndex, lastFinalizedIndex) ==
    batchIndex <= lastFinalizedIndex

\* isBatchCommitted(batchIndex, lastCommittedIndex)
IsBatchCommitted(batchIndex, lastCommittedIndex) ==
    batchIndex <= lastCommittedIndex

\* A classification that tests the committed index first.
GetBatchStatusCommittedFirst(batchIndex, lastFinalizedIndex, lastCommittedIndex) ==
    IF batchIndex <= lastCommittedIndex THEN "committed"
    ELSE IF batchIndex <= lastFinalizedIndex THEN "finalized"
    ELSE "pending"

\* getBatchStatus(batchIndex, lastFinalizedIndex, lastCommittedIndex)
GetBatchStatus(batchIndex, lastFinalizedIndex, lastCommittedIndex) ==
    IF batchIndex <= lastFinalizedIndex THEN "finalized"
    ELSE IF batchIndex <= lastCommittedIndex THEN "committed"
    ELSE "pending"

\* Math.abs
Abs(n) == IF n < 0 THEN -n ELSE n

\* estimateBatchFinalizationTime(batchIndex, currentBatchIndex,
\* avgBatchTimeMinutes).estimatedMinutes
EstimateBatchFinalizationTime(batchIndex, currentBatchIndex, avgBatchTimeMinutes) ==
    LET batchesBehind == currentBatchIndex - batchIndex
    IN  IF batchesBehind < 0
        THEN Abs(batchesBehind) * avgBatchTimeMinutes + 60
        ELSE 60 - (batchesBehind * avgBatchTimeMinutes)

NoProofResult == [fn |-> "", status |-> "", estimatedMinutes |-> 0]

CallGetBatchStatus ==
    /\ client.status = "proofUtils"
    /\ client' = [client EXCEPT !.result =
          [NoProofResult EXCEPT
              !.fn = "getBatchStatus",
              !.status = GetBatchStatus(client.batchIndex, client.lastFinalized,
                                        client.lastCommitted)]]
    /\ UNCHANGED <<triggerVars, exec>>

\* BatchClient.getBatchInfo on a contract that answers client.isFinalized
\* and a commitment hash that is non-zero iff client.hasCommitment.
CallGetBatchInfo ==
    /\ client.status = "proofUtils"
    /\ client' = [client EXCEPT !.result =
          [NoProofResult EXCEPT
              !.fn = "getBatchInfo",
              !.status = Classify(client.isFinalized, client.hasCommitment)]]
    /\ UNCHANGED <<triggerVars, exec>>

\* estimateBatchFinalizationTime with the last finalized index as
\* currentBatchIndex.
CallEstimateBatchFinalizationTime ==
    /\ client.status = "proofUtils"
    /\ client' = [client EXCEPT !.result =
          [NoProofResult EXCEPT
              !.fn = "estimateBatchFinalizationTime",
              !.estimatedMinutes =
                  EstimateBatchFinalizationTime(client.batchIndex,
                                                client.lastFinalized,
                                                client.avgBatchTimeMinutes)]]
    /\ UNCHANGED <<triggerVars, exec>>

InitProofUtils ==
    /\ triggerType = "none"
    /\ params = DefaultParams
    /\ staticData = EmptyStaticData
    /\ chain = <<>>
    /\ finalized = 0
    /\ nonce = 0
    /\ emitted = <<>>
    /\ outcome = "idle"
    /\ firstReturn = 0
    /\ exec = IdleExec
    /\ \E batchIndex \in 0..MaxBatch, lastFinalized \in 0..MaxBatch,
         lastCommitted \in 0..MaxBatch, avg \in AvgBatchTimes,
         isFinalized \in BOOLEAN, hasCommitment \in BOOLEAN :
         client = [status |-> "proofUtils", batchIndex |-> batchIndex,
                   lastFinalized |-> lastFinalized,
                   lastCommitted |-> lastCommitted,
                   avgBatchTimeMinutes |-> avg,
                   isFinalized |-> isFinalized,
                   hasCommitment |-> hasCommitment,
                   result |-> NoProofResult]

NextProofUtils ==
    \/ CallGetBatchStatus
    \/ CallGetBatchInfo
    \/ CallEstimateBatchFinalizationTime

SpecProofUtils == InitProofUtils /\ [][NextProofUtils]_vars

\* C22: getBatchStatus returns FINALIZED iff isBatchFinalized(batchIndex,
\* lastFinalized), COMMITTED iff the batch is not finalized and
\* isBatchCommitted(batchIndex, lastCommitted), PENDING otherwise;
\* getBatchInfo classifies the same way from the on-chain isBatchFinalized
\* flag and a non-zero commitment hash.
C22_BatchStatusClassification ==
    client.status = "proofUtils" =>
        LET isFinalized ==
               IF client.result.fn = "getBatchStatus"
               THEN IsBatchFinalized(client.batchIndex, client.lastFinalized)
               ELSE client.isFinalized
            isCommitted ==
               IF client.result.fn = "getBatchStatus"
               THEN IsBatchCommitted(client.batchIndex, client.lastCommitted)
               ELSE client.hasCommitment
        IN  client.result.fn \in {"getBatchStatus", "getBatchInfo"} =>
               /\ client.result.status \in {"finalized", "committed", "pending"}
               /\ client.result.status = "finalized" <=> isFinalized
               /\ client.result.status = "committed" <=>
                     (~isFinalized /\ isCommitted)
               /\ client.result.status = "pending" <=>
                     (~isFinalized /\ ~isCommitted)

\* getBatchStatus has classified a batch above the last finalized and at most
\* the last committed index.
C22_Witness ==
    /\ client.status = "proofUtils"
    /\ client.result.fn = "getBatchStatus"
    /\ client.result.status = "committed"
    /\ client.batchIndex > client.lastFinalized
    /\ client.batchIndex <= client.lastCommitted
    /\ client.lastFinalized > 0

\* C23: estimatedMinutes is non-negative, is 0 when the batch is already
\* finalized, and does not decrease as batchIndex moves further beyond the
\* last finalized batch.
C23_EstimateNonNegativeAndMonotone ==
    (client.status = "proofUtils"
        /\ client.result.fn = "estimateBatchFinalizationTime") =>
        /\ client.result.estimatedMinutes >= 0
        /\ IsBatchFinalized(client.batchIndex, client.lastFinalized) =>
              client.result.estimatedMinutes = 0
        /\ \A further \in client.batchIndex..MaxBatch :
              EstimateBatchFinalizationTime(further, client.lastFinalized,
                                            client.avgBatchTimeMinutes)
                 >= client.result.estimatedMinutes

====
